---- MODULE Spec2Model ----
(***************************************************************************)
(* A model of blurry-check: the edge-width blur estimator                  *)
(* (Filters.luminance, Filters.convolve, BlurDetector.detectBlur), the     *)
(* method combination of BlurDetector.analyzeImage, and the page loop and  *)
(* document policy of PDFAnalyzer.analyzePDF.                              *)
(*                                                                         *)
(* Numbers.  JavaScript numbers are modelled exactly: a real value is a    *)
(* pair <<n, d>> (the rational n/d, d > 0), compared by cross              *)
(* multiplication, so no threshold comparison is decided by a rounding of  *)
(* the model.  Infinity (a division by 0) is the value Inf.                *)
(***************************************************************************)
EXTENDS Integers, Sequences, FiniteSets, TLC

(***************************************************************************)
(* The state.  One client performs one library call at a time and keeps    *)
(* the outcome of its latest call.                                         *)
(*   loaded        OpenCVLoader.loaded (with window.cv), process-wide      *)
(*   imgCall       the arguments of the latest analyzeImage call           *)
(*   imgOutcome    what that call returned, or the error it rejected with  *)
(*   pdfPc         where the running analyzePDF call is                    *)
(*   numPages      pdf.numPages of the document under analysis             *)
(*   pageNum       the loop variable i of analyzePDF                       *)
(*   extractedText the length of analyzePDF's extractedText                *)
(*   isScanned     analyzePDF's isScanned flag                             *)
(*   pageResults   analyzePDF's pageResults                                *)
(*   pageLog       per document page, what the loop did with it            *)
(*   pageTexts     per document page, the text content it yielded          *)
(*   pdfOutcome    what analyzePDF returned, or the error it rejected with *)
(*   buffer        the ImageData a caller keeps and has analysed repeatedly*)
(*   bufferLog     the analyses run on it so far, with what they measured  *)
(*   unitCall      a call of one method (of PDFAnalyzer, or detectBlur of  *)
(*                 BlurDetector) on its own: the arguments and, once it    *)
(*                 has run, what it gave                                   *)
(* and, for calls that overlap:                                            *)
(*   loading       the loading flag of each loader: the OpenCVLoader       *)
(*                 instance and each PDFAnalyzer                           *)
(*   pdfLib        per PDFAnalyzer, whether its pdfLib is set              *)
(*   scripts       per library, the load whose script element is in the    *)
(*                 document (#opencv-script, #pdfjs-script), 0 if none     *)
(*   loads         the loads started so far: loadOpenCV / loadPdfJS calls  *)
(*                 that created a script, with how far each has come       *)
(*   callers       the callers of loadOpenCV / loadPdfJS and the state of  *)
(*                 the promise each holds                                  *)
(*   surface       the canvas that overlapping analyses draw on            *)
(*   analyses      the overlapping analyses and how far each has come      *)
(***************************************************************************)
VARIABLES loaded, imgCall, imgOutcome,
          pdfPc, pdfConfig, numPages, pageNum, extractedText, isScanned,
          pageResults, pageLog, pageTexts, pdfOutcome,
          buffer, bufferLog, unitCall,
          loading, pdfLib, scripts, loads, callers,
          surface, analyses

vars == <<loaded, imgCall, imgOutcome,
          pdfPc, pdfConfig, numPages, pageNum, extractedText, isScanned,
          pageResults, pageLog, pageTexts, pdfOutcome,
          buffer, bufferLog, unitCall,
          loading, pdfLib, scripts, loads, callers,
          surface, analyses>>

\* an absent (undefined) value is the empty tuple, a present value v is <<v>>
Undefined == << >>
Some(v) == <<v>>

(***************************************************************************)
(* Rational arithmetic                                                     *)
(***************************************************************************)
RECURSIVE Gcd(_, _)
Gcd(a, b) == IF b = 0 THEN a ELSE Gcd(b, a % b)

Abs(n) == IF n < 0 THEN -n ELSE n

\* the rational n/d in lowest terms, d > 0
Q(n, d) ==
  LET g == Gcd(Abs(n), Abs(d))
      s == IF d < 0 THEN -1 ELSE 1
  IN  IF n = 0 THEN <<0, 1>> ELSE <<s * (n \div g), s * (d \div g)>>

Zero == <<0, 1>>
One == <<1, 1>>
\* the value of x / 0 for x > 0
Inf == <<1, 0>>

QLt(a, b) == a[1] * b[2] < b[1] * a[2]
QLe(a, b) == a[1] * b[2] <= b[1] * a[2]
QAdd(a, b) == Q(a[1] * b[2] + b[1] * a[2], a[2] * b[2])
\* a / b, with x / 0 = Infinity for x > 0 (0 / 0 is NaN and is kept out of the inputs)
QDiv(a, b) == IF b[1] = 0 THEN Inf ELSE Q(a[1] * b[2], a[2] * b[1])
\* Math.min and Math.max
QMin(a, b) == IF QLt(b, a) THEN b ELSE a
QMax(a, b) == IF QLt(a, b) THEN b ELSE a

(***************************************************************************)
(* Pixel buffers.  An input picture is named by a small description        *)
(* (ImageSpec) and expanded to the ImageData the code works on: width,     *)
(* height and data, where data[y * width + x] is the pixel <<r, g, b, a>>. *)
(***************************************************************************)
Black == <<0, 0, 0>>
White == <<255, 255, 255>>

\* the colour of pixel (x, y) of the picture described by s
PixelOf(s, x, y) ==
  CASE s.kind = "flat" -> s.c
    [] s.kind = "checker" ->
         IF ((x \div s.cell) + (y \div s.cell)) % 2 = 0 THEN White ELSE Black
    [] s.kind = "cols" ->
         LET v == s.pat[(x % Len(s.pat)) + 1] IN <<v, v, v>>

ImageDataOf(s) ==
  [width |-> s.w, height |-> s.h,
   data |-> [o \in 0..(s.w * s.h - 1) |->
               LET p == PixelOf(s, o % s.w, o \div s.w)
               IN  <<p[1], p[2], p[3], 255>>]]

(***************************************************************************)
(* Uint8ClampedArray store: round to nearest, ties to even, clamp to       *)
(* 0..255.  The value stored is n / d with d > 0.                          *)
(***************************************************************************)
ToUint8Clamped(n, d) ==
  LET q == n \div d
      r == n % d
      rounded == IF 2 * r > d THEN q + 1
                 ELSE IF 2 * r < d THEN q
                 ELSE IF q % 2 = 0 THEN q ELSE q + 1
  IN  IF rounded < 0 THEN 0 ELSE IF rounded > 255 THEN 255 ELSE rounded

Min(a, b) == IF a < b THEN a ELSE b
Max(a, b) == IF a > b THEN a ELSE b

(***************************************************************************)
(* Filters.luminance                                                       *)
(***************************************************************************)
luminance(pixels) ==
  [width |-> pixels.width, height |-> pixels.height,
   data |-> [o \in DOMAIN pixels.data |->
               LET p == pixels.data[o]
                   v == ToUint8Clamped(2126 * p[1] + 7152 * p[2] + 722 * p[3], 10000)
               IN  <<v, v, v, p[4]>>]]

(***************************************************************************)
(* Filters.convolve with a 3x3 kernel (side = 3, halfSide = 1), weights a  *)
(* sequence of 9 integers; border samples are clamped to the buffer.       *)
(***************************************************************************)
sobelKernel == <<1, 0, -1, 2, 0, -2, 1, 0, -1>>

convolve(pixels, weights, opaque) ==
  LET sw == pixels.width
      sh == pixels.height
      src == pixels.data
      alphaFac == IF opaque THEN 1 ELSE 0
      Tap(x, y, k, ch) ==
        LET cy == (k - 1) \div 3
            cx == (k - 1) % 3
            scy == Min(sh - 1, Max(0, y + cy - 1))
            scx == Min(sw - 1, Max(0, x + cx - 1))
        IN  src[scy * sw + scx][ch] * weights[k]
      Sum(x, y, ch) ==
        Tap(x, y, 1, ch) + Tap(x, y, 2, ch) + Tap(x, y, 3, ch) +
        Tap(x, y, 4, ch) + Tap(x, y, 5, ch) + Tap(x, y, 6, ch) +
        Tap(x, y, 7, ch) + Tap(x, y, 8, ch) + Tap(x, y, 9, ch)
  IN  [width |-> sw, height |-> sh,
       data |-> [o \in DOMAIN src |->
                   LET x == o % sw
                       y == o \div sw
                       a == Sum(x, y, 4)
                   IN  <<ToUint8Clamped(Sum(x, y, 1), 1),
                         ToUint8Clamped(Sum(x, y, 2), 1),
                         ToUint8Clamped(Sum(x, y, 3), 1),
                         ToUint8Clamped(a + alphaFac * (255 - a), 1)>>]]

\* BlurDetector.detectEdges
detectEdges(imageData) == convolve(luminance(imageData), sobelKernel, TRUE)

\* BlurDetector.reducedPixels: one row per y, holding the red channel
reducedPixels(imageData) ==
  [y \in 0..(imageData.height - 1) |->
     [x \in 0..(imageData.width - 1) |-> imageData.data[y * imageData.width + x][1]]]

(***************************************************************************)
(* BlurDetector.detectBlur.  ScanStep is the body of the inner loop at     *)
(* column x; ScanRow runs it for x = lo .. hi-1 in order (the interval is  *)
(* split in halves only to keep the evaluation shallow); ScanRows is the   *)
(* outer loop, which resets edgeStart at the start of every row.           *)
(***************************************************************************)
ScanStep(row, x, st) ==
  LET value == row[x]
      open == st.edgeStart >= 0 /\ x > st.edgeStart
      drop == open /\ value < row[x - 1]
      counted == drop /\ row[x - 1] >= 20
      afterDrop == IF drop THEN -1 ELSE st.edgeStart
  IN  [edgeStart |-> IF value = 0 THEN x ELSE afterDrop,
       numEdges |-> IF counted THEN st.numEdges + 1 ELSE st.numEdges,
       sumEdgeWidths |-> IF counted THEN st.sumEdgeWidths + (x - st.edgeStart - 1)
                         ELSE st.sumEdgeWidths]

RECURSIVE ScanRow(_, _, _, _)
ScanRow(row, lo, hi, st) ==
  IF lo >= hi THEN st
  ELSE IF hi = lo + 1 THEN ScanStep(row, lo, st)
  ELSE LET mid == (lo + hi) \div 2
           left == ScanRow(row, lo, mid, st)
       IN  \* the test only makes the left half be evaluated before the right half
           IF left.numEdges < 0 THEN left ELSE ScanRow(row, mid, hi, left)

RECURSIVE ScanRows(_, _, _, _)
ScanRows(pixels, y, height, st) ==
  IF y >= height THEN st
  ELSE LET width == Cardinality(DOMAIN pixels[y])
           done == ScanRow(pixels[y], 0, width, [st EXCEPT !.edgeStart = -1])
       IN  IF done.numEdges < 0 THEN done ELSE ScanRows(pixels, y + 1, height, done)

detectBlur(pixels) ==
  LET width == Cardinality(DOMAIN pixels[0])
      height == Cardinality(DOMAIN pixels)
      st == ScanRows(pixels, 0, height, [edgeStart |-> -1, numEdges |-> 0, sumEdgeWidths |-> 0])
  IN  IF st.numEdges = 0
      THEN [width |-> width, height |-> height, numEdges |-> 0,
            avgEdgeWidth |-> Zero, avgEdgeWidthPerc |-> Zero]
      ELSE [width |-> width, height |-> height, numEdges |-> st.numEdges,
            avgEdgeWidth |-> Q(st.sumEdgeWidths, st.numEdges),
            avgEdgeWidthPerc |-> Q(100 * st.sumEdgeWidths, st.numEdges * width)]

\* BlurDetector.measureBlurByEdges
measureBlurByEdges(imageData) == detectBlur(reducedPixels(detectEdges(imageData)))


(***************************************************************************)
(* The pictures the model analyses.  MaxFlatSide, MaxCell bound the small  *)
(* ones; the wide ones are there because the edge width is measured        *)
(* relative to the picture's width: with thresholds of 0.25 to 0.5 per     *)
(* cent only a picture of 400 pixels or more can have sharp edges.         *)
(***************************************************************************)
MaxFlatSide == 3
MaxCell == 3

Gray == <<128, 128, 128>>
Green == <<10, 200, 30>>

FlatPictures ==
  {[kind |-> "flat", w |-> fw, h |-> fh, c |-> fc] :
     fw \in 1..MaxFlatSide, fh \in 1..MaxFlatSide, fc \in {Black, White, Gray, Green}}
  \cup {[kind |-> "flat", w |-> 40, h |-> 30, c |-> White]}

CheckerWidths == {8, 399, 400}

CheckerPictures ==
  {[kind |-> "checker", w |-> cw, h |-> 2, cell |-> cs] :
     cw \in CheckerWidths, cs \in 1..MaxCell}

\* columns of sharp dark strokes, 400 and 800 pixels wide, and a soft ramp
Sharp400 == [kind |-> "cols", w |-> 400, h |-> 1, pat |-> <<255, 255, 0>>]
Sharp800 == [kind |-> "cols", w |-> 800, h |-> 1, pat |-> <<255, 255, 0>>]
Soft800 == [kind |-> "cols", w |-> 800, h |-> 1,
            pat |-> <<0, 64, 128, 192, 255, 192, 128, 64>>]
Blank == [kind |-> "flat", w |-> 3, h |-> 3, c |-> White]

ColsPictures == {Sharp400, Sharp800, Soft800}

Pictures == FlatPictures \cup CheckerPictures \cup ColsPictures

(***************************************************************************)
(* measureBlurByEdges is a pure function of the buffer: its value for each *)
(* picture of the model is tabulated once (EdgeTable) and looked up.       *)
(***************************************************************************)
EdgeTable == {<<pic, measureBlurByEdges(ImageDataOf(pic))>> : pic \in Pictures}

edgeAnalysisOf(pic) == (CHOOSE p \in EdgeTable : p[1] = pic)[2]

(***************************************************************************)
(* Configuration.  A BlurDetectionConfig gives each option or leaves it    *)
(* undefined.                                                              *)
(***************************************************************************)
DefaultOr(opt, d) == IF opt = Undefined THEN d ELSE opt[1]

\* BlurDetector.constructor: config.option ?? default
BlurDetectorConfig(config) ==
  [edgeWidthThreshold |-> DefaultOr(config.edgeWidthThreshold, Q(3, 10)),
   laplacianThreshold |-> DefaultOr(config.laplacianThreshold, Q(150, 1)),
   method |-> DefaultOr(config.method, "both")]

\* BlurryCheck.constructor: { defaults, ...config }
BlurryCheckConfig(config) ==
  [edgeWidthThreshold |-> Some(DefaultOr(config.edgeWidthThreshold, Q(1, 2))),
   laplacianThreshold |-> Some(DefaultOr(config.laplacianThreshold, Q(100, 1))),
   method |-> Some(DefaultOr(config.method, "edge"))]

(***************************************************************************)
(* BlurDetector.detectBlurrinessWithOpenCV.  env says what the vision      *)
(* library does when asked: env.load is the outcome of loadOpenCV (only    *)
(* called when the library is not loaded), env.compute whether the cv      *)
(* calls throw, env.variance the value of stddev ** 2.                     *)
(***************************************************************************)
detectBlurrinessWithOpenCV(isLoaded, env) ==
  IF ~isLoaded /\ env.load # "ok"
  THEN [ok |-> FALSE, error |-> env.load, variance |-> Zero, loaded |-> FALSE]
  ELSE IF env.compute # "ok"
  THEN [ok |-> FALSE, error |-> "cv error", variance |-> Zero, loaded |-> TRUE]
  ELSE [ok |-> TRUE, error |-> "", variance |-> env.variance, loaded |-> TRUE]

\* JavaScript truthiness of an optional number: undefined and 0 are falsy
Truthy(opt) == opt # Undefined /\ opt[1] # Zero

(***************************************************************************)
(* BlurDetector.analyzeImage on a pixel buffer (picture pic), with the     *)
(* detector's config, cv the outcome of detectBlurrinessWithOpenCV (only   *)
(* consulted for 'laplacian' and 'both'), and filterCtx telling whether    *)
(* Filters.createImageData obtains a drawing context (it throws if not).   *)
(* The value is what the call returns or the error it rejects with.        *)
(***************************************************************************)
EdgeBlurry(config, edgeAnalysis) ==
  QLt(config.edgeWidthThreshold, edgeAnalysis.avgEdgeWidthPerc)

\* a variant dividing in whole numbers: floor(width * height / 10000)
LowEdgeCountWholeDivision(pic, edgeAnalysis) ==
  edgeAnalysis.numEdges < (pic.w * pic.h) \div 10000

LowEdgeCount(pic, edgeAnalysis) ==
  edgeAnalysis.numEdges * 10000 < pic.w * pic.h

EdgeConfidence(config, edgeAnalysis) ==
  QMin(QDiv(edgeAnalysis.avgEdgeWidthPerc, config.edgeWidthThreshold), One)

LaplacianConfidence(config, variance) ==
  QMin(QDiv(config.laplacianThreshold, variance), One)

\* lines 357-373: the edge stage; edgeAnalysis is what measureBlurByEdges returns
EdgeStage(config, pic, edgeAnalysis, result) ==
  IF config.method \in {"edge", "both"}
  THEN LET isBlurryByEdge == EdgeBlurry(config, edgeAnalysis)
           hasLowEdgeCount == LowEdgeCount(pic, edgeAnalysis)
           combinedBlurCheck == isBlurryByEdge \/ hasLowEdgeCount
           withMetrics == [result EXCEPT !.metrics.edgeAnalysis = Some(edgeAnalysis)]
       IN  IF config.method = "edge"
           THEN [withMetrics EXCEPT !.isBlurry = combinedBlurCheck,
                                    !.confidence = EdgeConfidence(config, edgeAnalysis)]
           ELSE withMetrics
  ELSE result

\* lines 375-398: the variance stage and its catch block
LaplacianStage(config, pic, edgeAnalysis, cv, result) ==
  IF config.method \in {"laplacian", "both"}
  THEN IF cv.ok
       THEN LET laplacianVariance == cv.variance
                isBlurryByLaplacian == QLt(laplacianVariance, config.laplacianThreshold)
                withMetrics == [result EXCEPT
                                  !.metrics.laplacianVariance = Some(laplacianVariance)]
            IN  IF config.method = "laplacian"
                THEN [withMetrics EXCEPT
                        !.isBlurry = isBlurryByLaplacian,
                        !.confidence = LaplacianConfidence(config, laplacianVariance)]
                ELSE withMetrics
       ELSE IF config.method = "laplacian"
            THEN [result EXCEPT
                   !.metrics.edgeAnalysis = Some(edgeAnalysis),
                   !.isBlurry = EdgeBlurry(config, edgeAnalysis),
                   !.confidence = EdgeConfidence(config, edgeAnalysis),
                   !.method = "edge (fallback)"]
            ELSE result
  ELSE result

\* lines 400-420: the combination for 'both'
BothStage(config, pic, result) ==
  IF config.method = "both"
  THEN LET ea == result.metrics.edgeAnalysis
           lv == result.metrics.laplacianVariance
           edgeBlurry == IF ea # Undefined THEN EdgeBlurry(config, ea[1]) ELSE FALSE
           hasLowEdgeCount == IF ea # Undefined THEN LowEdgeCount(pic, ea[1]) ELSE FALSE
           combinedEdgeBlurry == edgeBlurry \/ hasLowEdgeCount
           laplacianBlurry == IF Truthy(lv) THEN QLt(lv[1], config.laplacianThreshold)
                              ELSE FALSE
           edgeConfidence == IF ea # Undefined THEN EdgeConfidence(config, ea[1]) ELSE Zero
           laplacianConfidence == IF Truthy(lv) THEN LaplacianConfidence(config, lv[1])
                                  ELSE Zero
       IN  [result EXCEPT !.isBlurry = combinedEdgeBlurry \/ laplacianBlurry,
                          !.confidence = QMax(edgeConfidence, laplacianConfidence)]
  ELSE result

\* does the call run measureBlurByEdges (and with it Filters.createImageData)?
RunsEdgeEstimator(config, cv) ==
  config.method \in {"edge", "both"} \/ (config.method = "laplacian" /\ ~cv.ok)

analyzeImage(config, pic, cv, filterCtx) ==
  LET result == [isBlurry |-> FALSE, confidence |-> Zero, method |-> config.method,
                 metrics |-> [edgeAnalysis |-> Undefined, laplacianVariance |-> Undefined]]
  IN  IF RunsEdgeEstimator(config, cv) /\ ~filterCtx
      THEN [status |-> "rejected",
            error |-> "Blur analysis failed: Could not get 2D context"]
      ELSE [status |-> "returned",
            result |-> BothStage(config, pic,
                         LaplacianStage(config, pic, edgeAnalysisOf(pic), cv,
                           EdgeStage(config, pic, edgeAnalysisOf(pic), result)))]

(***************************************************************************)
(* PDFAnalyzer.calculateTextSharpness.  The gray value of a pixel is       *)
(* 0.299 r + 0.587 g + 0.114 b, which is the pixel's level for the gray    *)
(* pictures of the model; the maximal gradient magnitude of a window is    *)
(* the square root of the largest dx*dx + dy*dy, an integer for them.      *)
(***************************************************************************)
sampleSize == 5

RECURSIVE SumOver(_, _)
\* the sum of the second components of a set of pairs <<key, value>>
SumOver(pairs, acc) ==
  IF pairs = {} THEN acc
  ELSE LET p == CHOOSE q \in pairs : TRUE IN SumOver(pairs \ {p}, acc + p[2])

RECURSIVE MaxOver(_, _)
MaxOver(values, acc) ==
  IF values = {} THEN acc
  ELSE LET v == CHOOSE q \in values : TRUE IN MaxOver(values \ {v}, Max(acc, v))

\* Math.sqrt, rounded down
Sqrt(n) == CHOOSE r \in 0..361 : r * r <= n /\ (r + 1) * (r + 1) > n

calculateTextSharpness(imageData) ==
  LET width == imageData.width
      height == imageData.height
      data == imageData.data
      stride == Max(1, Min(width, height) \div 100)
      GrayAt(px, py) ==
        LET p == data[py * width + px]
        IN  (299 * p[1] + 587 * p[2] + 114 * p[3]) \div 1000
      cells == (0..(sampleSize - 1)) \X (0..(sampleSize - 1))
      inner == {c \in cells : c[1] < sampleSize - 1 /\ c[2] < sampleSize - 1}
      origins == {o \in (0..(width - 1)) \X (0..(height - 1)) :
                    /\ o[1] < width - sampleSize /\ o[2] < height - sampleSize
                    /\ o[1] % stride = 0 /\ o[2] % stride = 0}
      localSum(o) == SumOver({<<c, GrayAt(o[1] + c[1], o[2] + c[2])>> : c \in cells}, 0)
      localSumSq(o) ==
        SumOver({<<c, GrayAt(o[1] + c[1], o[2] + c[2]) * GrayAt(o[1] + c[1], o[2] + c[2])>> :
                   c \in cells}, 0)
      gradSq(o, c) ==
        LET gray == GrayAt(o[1] + c[1], o[2] + c[2])
            gradX == GrayAt(o[1] + c[1] + 1, o[2] + c[2]) - gray
            gradY == GrayAt(o[1] + c[1], o[2] + c[2] + 1) - gray
        IN  gradX * gradX + gradY * gradY
      maxGradient(o) == Sqrt(MaxOver({gradSq(o, c) : c \in inner}, 0))
      \* variance = localSumSq / 25 - mean * mean = varNum / 625
      varNum(o) == 25 * localSumSq(o) - localSum(o) * localSum(o)
      textLike == {o \in origins : varNum(o) > 100 * 625}
      sampleCount == Cardinality(textLike)
      totalVarNum == SumOver({<<o, varNum(o)>> : o \in textLike}, 0)
      edgeIntensity == SumOver({<<o, maxGradient(o)>> : o \in textLike}, 0)
      avgVariance == IF sampleCount > 0 THEN Q(totalVarNum, 625 * sampleCount) ELSE Zero
      avgEdgeIntensity == IF sampleCount > 0 THEN Q(edgeIntensity, sampleCount) ELSE Zero
      sharpnessScore == QAdd(QDiv(avgVariance, Q(1000, 1)), QDiv(avgEdgeIntensity, Q(50, 1)))
  IN  [textSharpnessScore |-> sharpnessScore,
       isTextBlurry |-> QLt(sharpnessScore, Q(4, 5)),
       sampleCount |-> sampleCount]

\* renderings of a page's text at scale 3.0: a soft ramp, faint strokes, crisp strokes
Ramp == [kind |-> "cols", w |-> 7, h |-> 6, pat |-> <<100, 110, 120, 130, 140, 150, 160>>]
Faint == [kind |-> "cols", w |-> 7, h |-> 6, pat |-> <<100, 100, 125, 125>>]
Crisp == [kind |-> "cols", w |-> 7, h |-> 6, pat |-> <<255, 255, 0>>]

TextPictures == {Ramp, Faint, Crisp}

SharpnessTable == {<<pic, calculateTextSharpness(ImageDataOf(pic))>> : pic \in TextPictures}

textSharpnessOf(pic) == (CHOOSE p \in SharpnessTable : p[1] = pic)[2]

(***************************************************************************)
(* PDFAnalyzer.checkPdfPageQuality.  q says what rendering the page does:  *)
(* q.fail names the step that throws, if any ("getPage", "context",        *)
(* "render", or "blur" when analyzeImage rejects), and q.pics[k] is the    *)
(* picture the page renders to at scales[k].                               *)
(***************************************************************************)
scales == <<Q(1, 1), Q(3, 2), Q(2, 1)>>

\* the edge threshold of the per-scale detector: Math.min(config || 0.5, 0.25)
PdfEdgeThreshold(config) ==
  QMin(IF Truthy(config.edgeWidthThreshold) THEN config.edgeWidthThreshold[1] ELSE Q(1, 2),
       Q(1, 4))

PdfDetectorConfig(config) ==
  BlurDetectorConfig([config EXCEPT !.edgeWidthThreshold = Some(PdfEdgeThreshold(config)),
                                    !.method = Some("edge")])

\* no vision library is involved in an 'edge' analysis
NoCv == [ok |-> FALSE, error |-> "", variance |-> Zero, loaded |-> FALSE]

RECURSIVE QSum(_, _)
\* results.reduce((sum, r) => sum + r.confidence, 0), from index k on
QSum(results, k) ==
  IF k > Len(results) THEN Zero ELSE QAdd(results[k].confidence, QSum(results, k + 1))

\* a variant asking for most of the scales to report blur
MergedIsBlurryByMajority(blurryCount) == blurryCount > 1

\* line 165: isBlurry: blurryCount > 0
MergedIsBlurry(blurryCount) == blurryCount > 0

\* the merge of the scale results, lines 156-178
MergeScales(results) ==
  LET blurryCount == Cardinality({k \in 1..Len(results) : results[k].isBlurry})
      avgConfidence == QDiv(QSum(results, 1), Q(Len(results), 1))
      bestResult == results[Len(results)]
  IN  [isBlurry |-> MergedIsBlurry(blurryCount),
       confidence |-> QMax(avgConfidence, Q(blurryCount, Len(results))),
       method |-> [scalesBlurry |-> blurryCount, scalesTotal |-> Len(results),
                   textAnalysis |-> FALSE, headerAdjusted |-> FALSE],
       metrics |-> [edgeAnalysis |-> bestResult.metrics.edgeAnalysis,
                    scaleResults |-> [k \in 1..Len(results) |->
                                        [scale |-> scales[k],
                                         isBlurry |-> results[k].isBlurry,
                                         confidence |-> results[k].confidence]],
                    textSharpness |-> Undefined,
                    contentAnalysis |-> Undefined]]

checkPdfPageQuality(config, q) ==
  IF q.fail # "none"
  THEN [ok |-> FALSE, error |-> q.fail]
  ELSE LET results == [k \in 1..Len(scales) |->
                         analyzeImage(PdfDetectorConfig(config), q.pics[k], NoCv, TRUE).result]
       IN  [ok |-> TRUE, result |-> MergeScales(results)]

(***************************************************************************)
(* PDFAnalyzer.analyzePageContent.  The extracted text of a page is given  *)
(* by what the code looks at: the number of text items, the length of the  *)
(* items joined by ' ' (joined), that length after trim() (trimmed), and   *)
(* whether each of the three patterns matches.                             *)
(***************************************************************************)
\* a variant that measures the text before trim()
analyzePageContentUntrimmed(textContent, pageNumber) ==
  LET textLength == textContent.joined
      hasLowTextContent == textLength < 200
  IN  [isLikelyHeaderPage |->
         pageNumber = 1 /\ (hasLowTextContent \/
                            (/\ textContent.hasHeaderKeywords /\ textContent.hasDatePattern
                             /\ textContent.hasAmountPattern /\ textLength < 500)),
       textDensity |-> Q(textLength, Max(textContent.items, 1)),
       hasLowTextContent |-> hasLowTextContent]

analyzePageContent(textContent, pageNumber) ==
  LET textLength == textContent.trimmed
      isFirstPage == pageNumber = 1
      hasLowTextContent == textLength < 200
      textDensity == Q(textLength, Max(textContent.items, 1))
      isLikelyHeaderPage ==
        isFirstPage /\ (hasLowTextContent \/
                        (/\ textContent.hasHeaderKeywords /\ textContent.hasDatePattern
                         /\ textContent.hasAmountPattern /\ textLength < 500))
  IN  [isLikelyHeaderPage |-> isLikelyHeaderPage,
       textDensity |-> textDensity,
       hasLowTextContent |-> hasLowTextContent]

(***************************************************************************)
(* PDFAnalyzer.analyzeTextSharpness.  sharp.fail names the step of it that *)
(* throws, if any: "fetch" (getPage or getTextContent, lines 225-226),     *)
(* "context" (no drawing context, lines 239-242) or "render" (line 253);   *)
(* sharp.pic is the picture the page renders to at scale 3.0.  rendered    *)
(* tells whether page.render was called.                                   *)
(***************************************************************************)
\* a variant that renders the page before it looks at the text items
analyzeTextSharpnessRenderFirst(textContent, sharp) ==
  IF sharp.fail # "none"
  THEN [ok |-> FALSE, rendered |-> sharp.fail = "render"]
  ELSE [ok |-> TRUE, rendered |-> TRUE, result |-> textSharpnessOf(sharp.pic)]

analyzeTextSharpness(textContent, sharp) ==
  IF sharp.fail = "fetch"
  THEN [ok |-> FALSE, rendered |-> FALSE]
  ELSE IF textContent.items = 0
  THEN [ok |-> TRUE, rendered |-> FALSE,
        result |-> [textSharpnessScore |-> Zero, isTextBlurry |-> TRUE, sampleCount |-> 0]]
  ELSE IF sharp.fail # "none"
  THEN [ok |-> FALSE, rendered |-> sharp.fail = "render"]
  ELSE [ok |-> TRUE, rendered |-> TRUE, result |-> textSharpnessOf(sharp.pic)]

(***************************************************************************)
(* One iteration of the page loop of analyzePDF (lines 374-435) for page   *)
(* pageNumber with the inputs inp: what it does to the loop's state.       *)
(*   abort    the iteration throws out of the loop (to the catch, l. 492)  *)
(*   scanned  the page sets isScanned                                      *)
(*   text     the length added to extractedText                            *)
(*   push     the results pushed on pageResults (none or one)              *)
(*   log      what happened to the page                                    *)
(***************************************************************************)
\* a variant without the adjustment for header pages
CombinedResultUnadjusted(pageAnalysis, textSharpness, contentAnalysis) ==
  [pageAnalysis EXCEPT
     !.isBlurry = pageAnalysis.isBlurry \/ textSharpness.isTextBlurry,
     !.confidence = QMax(pageAnalysis.confidence, textSharpness.textSharpnessScore),
     !.method.textAnalysis = TRUE,
     !.method.headerAdjusted = FALSE,
     !.metrics.textSharpness = Some(textSharpness),
     !.metrics.contentAnalysis = Some(contentAnalysis)]

\* a variant whose bar for header pages is above the bar of isTextBlurry
CombinedResultHarshHeader(pageAnalysis, textSharpness, contentAnalysis) ==
  [pageAnalysis EXCEPT
     !.isBlurry = IF contentAnalysis.isLikelyHeaderPage
                  THEN QLt(textSharpness.textSharpnessScore, Q(20, 1))
                  ELSE pageAnalysis.isBlurry \/ textSharpness.isTextBlurry,
     !.confidence = QMax(pageAnalysis.confidence, textSharpness.textSharpnessScore),
     !.method.textAnalysis = TRUE,
     !.method.headerAdjusted = contentAnalysis.isLikelyHeaderPage,
     !.metrics.textSharpness = Some(textSharpness),
     !.metrics.contentAnalysis = Some(contentAnalysis)]

CombinedResult(pageAnalysis, textSharpness, contentAnalysis) ==
  LET unadjusted == pageAnalysis.isBlurry \/ textSharpness.isTextBlurry
      finalIsBlurry == IF contentAnalysis.isLikelyHeaderPage
                       THEN QLt(textSharpness.textSharpnessScore, Q(1, 2))
                       ELSE unadjusted
  IN  [pageAnalysis EXCEPT
         !.isBlurry = finalIsBlurry,
         !.confidence = QMax(pageAnalysis.confidence, textSharpness.textSharpnessScore),
         !.method.textAnalysis = TRUE,
         !.method.headerAdjusted = contentAnalysis.isLikelyHeaderPage,
         !.metrics.textSharpness = Some(textSharpness),
         !.metrics.contentAnalysis = Some(contentAnalysis)]

\* lines 381-434, once the page and its text content are there: pageAnalysis
\* and textSharpness are the outcomes of the two awaited calls (the second is
\* only looked at where the code makes the call)
PageBody(textContent, contentAnalysis, pageAnalysis, textSharpness) ==
  LET base == [abort |-> FALSE, scanned |-> textContent.items = 0,
               text |-> textContent.joined, push |-> << >>, log |-> ""]
  IN  IF ~pageAnalysis.ok
      THEN [base EXCEPT !.log = "quality failed"]
      ELSE IF textContent.items > 0
      THEN IF textSharpness.ok
           THEN [base EXCEPT
                   !.push = <<CombinedResult(pageAnalysis.result, textSharpness.result,
                                             contentAnalysis)>>,
                   !.log = "combined"]
           ELSE [base EXCEPT !.push = <<pageAnalysis.result>>,
                             !.log = "text analysis failed"]
      ELSE [base EXCEPT !.push = <<pageAnalysis.result>>, !.log = "edge only"]

PageStep(config, pageNumber, inp) ==
  IF inp.fetch # "ok"
  THEN [abort |-> TRUE, scanned |-> FALSE, text |-> 0, push |-> << >>,
        log |-> "getPage failed"]
  ELSE IF ~inp.text.ok
  THEN [abort |-> TRUE, scanned |-> FALSE, text |-> 0, push |-> << >>,
        log |-> "getTextContent failed"]
  ELSE PageBody(inp.text.content,
                analyzePageContent(inp.text.content, pageNumber),
                checkPdfPageQuality(config, inp.quality),
                analyzeTextSharpness(inp.text.content, inp.sharp))

(***************************************************************************)
(* The document policy of analyzePDF, lines 443-479.                       *)
(***************************************************************************)
Blurry(results) == {k \in 1..Len(results) : results[k].isBlurry}

\* Math.ceil(n / 2)
CeilHalf(n) == (n + 1) \div 2

\* variants of the policy: the first page counted with the others, a strict
\* majority of the later pages asked for, a single page treated as a first page
QualityGoodAllPages(results) ==
  IF Len(results) > 1
  THEN Cardinality(Blurry(results)) < CeilHalf(Len(results))
  ELSE Cardinality(Blurry(results)) = 0

QualityGoodStrictMajority(results) ==
  IF Len(results) > 1
  THEN 2 * Cardinality(Blurry(results) \ {1}) <= Len(results) - 1
  ELSE Cardinality(Blurry(results)) = 0

QualityGoodLenientSingle(results) ==
  IF Len(results) > 1
  THEN Cardinality(Blurry(results) \ {1}) < CeilHalf(Len(results) - 1)
  ELSE TRUE

\* a variant that gives the first page no leniency: good when no page is blurry
QualityGoodNoneBlurry(results) == Blurry(results) = {}

\* a variant in which the first page, unless it is the only blurry one, is
\* counted with the others
QualityGoodFirstCounts(results) ==
  IF Len(results) > 1
  THEN IF results[1].isBlurry /\ Blurry(results) = {1}
       THEN TRUE
       ELSE Cardinality(Blurry(results)) < CeilHalf(Len(results))
  ELSE Cardinality(Blurry(results)) = 0

QualityGood(results) ==
  IF Len(results) > 0
  THEN IF Len(results) > 1
       THEN LET nonFirstPageResults == SubSeq(results, 2, Len(results))
                blurryNonFirstPages == Blurry(nonFirstPageResults)
                firstPageBlurry == results[1].isBlurry
                restPagesBlurry == Cardinality(blurryNonFirstPages) > 0
            IN  IF firstPageBlurry /\ ~restPagesBlurry
                THEN TRUE
                ELSE IF Cardinality(blurryNonFirstPages) >= CeilHalf(Len(nonFirstPageResults))
                THEN FALSE
                ELSE TRUE
       ELSE Cardinality(Blurry(results)) = 0
  ELSE TRUE

\* a variant that asks for more than 10 characters of text
PdfResultOverTen(results, anyPageScanned, textLength, pages) ==
  [isQualityGood |-> QualityGood(results),
   isScanned |-> anyPageScanned \/ ~(textLength > 10),
   pagesAnalyzed |-> pages,
   textLength |-> textLength,
   pageResults |-> IF Len(results) > 0 THEN Some(results) ELSE Undefined]

\* a variant that reports the number of page results as pagesAnalyzed
PdfResultCountsResults(results, anyPageScanned, textLength, pages) ==
  [isQualityGood |-> QualityGood(results),
   isScanned |-> anyPageScanned \/ ~(textLength >= 10),
   pagesAnalyzed |-> Len(results),
   textLength |-> textLength,
   pageResults |-> IF Len(results) > 0 THEN Some(results) ELSE Undefined]

\* lines 437-439 and 481-490: the result object
PdfResult(results, anyPageScanned, textLength, pages) ==
  LET isTextBased == textLength >= 10
      finalIsScanned == anyPageScanned \/ ~isTextBased
  IN  [isQualityGood |-> QualityGood(results),
       isScanned |-> finalIsScanned,
       pagesAnalyzed |-> pages,
       textLength |-> textLength,
       pageResults |-> IF Len(results) > 0 THEN Some(results) ELSE Undefined]

(***************************************************************************)
(* The inputs of the model.                                                *)
(***************************************************************************)
MaxPages == 3
MaxProbePages == 2
MaxDocPages == 5

NoConfig == [edgeWidthThreshold |-> Undefined, laplacianThreshold |-> Undefined,
             method |-> Undefined]

\* the configs given to analyzeImage callers
ImageConfigs ==
  {[NoConfig EXCEPT !.method = m, !.edgeWidthThreshold = t] :
     m \in {Undefined, Some("edge"), Some("laplacian"), Some("both")},
     t \in {Undefined, Some(Q(1, 2)), Some(Q(30, 1))}}

\* the configs given to PDFAnalyzer
PdfConfigs == {NoConfig}
ProbeConfigs == {NoConfig, [NoConfig EXCEPT !.edgeWidthThreshold = Some(Q(1, 10))]}

\* what the vision library can do for a picture: the Laplacian of a flat
\* picture is 0 everywhere, so its variance is 0; other pictures have some
CvEnvs(pic) ==
  {[load |-> "load error", compute |-> "ok", variance |-> Zero],
   [load |-> "load timeout", compute |-> "ok", variance |-> Zero],
   [load |-> "ok", compute |-> "cv error", variance |-> Zero]}
  \cup {[load |-> "ok", compute |-> "ok", variance |-> v] :
          v \in IF pic.kind = "flat" THEN {Zero} ELSE {Q(120, 1), Q(300, 1)}}

NoEnv == [load |-> "ok", compute |-> "ok", variance |-> Zero]

\* extracted page texts: none, a short line, a body of text
NoText == [items |-> 0, joined |-> 0, trimmed |-> 0, hasHeaderKeywords |-> FALSE,
           hasDatePattern |-> FALSE, hasAmountPattern |-> FALSE]
ShortText == [items |-> 1, joined |-> 4, trimmed |-> 4, hasHeaderKeywords |-> FALSE,
              hasDatePattern |-> FALSE, hasAmountPattern |-> FALSE]
BodyText == [items |-> 20, joined |-> 300, trimmed |-> 300, hasHeaderKeywords |-> FALSE,
             hasDatePattern |-> FALSE, hasAmountPattern |-> FALSE]

\* ten characters in two items, and a first page of an invoice: a
\* billing keyword, a date and an amount in 350 characters
TenText == [items |-> 2, joined |-> 10, trimmed |-> 10, hasHeaderKeywords |-> FALSE,
            hasDatePattern |-> FALSE, hasAmountPattern |-> FALSE]
InvoiceText == [items |-> 12, joined |-> 350, trimmed |-> 350, hasHeaderKeywords |-> TRUE,
                hasDatePattern |-> TRUE, hasAmountPattern |-> TRUE]

TextContents == {NoText, ShortText, BodyText}

AllTextContents == TextContents \cup {TenText, InvoiceText}

QualityFailures == {"getPage", "context", "render", "blur"}

NoSharp == [fail |-> "none", pic |-> Ramp]
AllSharp == <<Sharp800, Sharp800, Sharp800>>

\* the inputs of one loop iteration, given the renderings a page can have and
\* the renderings its text can have
PageInputsOver(texts, renders, sharps) ==
  {[fetch |-> "fail", text |-> [ok |-> FALSE, content |-> NoText],
    quality |-> [fail |-> "none", pics |-> AllSharp], sharp |-> NoSharp],
   [fetch |-> "ok", text |-> [ok |-> FALSE, content |-> NoText],
    quality |-> [fail |-> "none", pics |-> AllSharp], sharp |-> NoSharp]}
  \cup {[fetch |-> "ok", text |-> [ok |-> TRUE, content |-> t],
         quality |-> [fail |-> f, pics |-> AllSharp], sharp |-> NoSharp] :
          t \in texts, f \in QualityFailures}
  \cup {[fetch |-> "ok", text |-> [ok |-> TRUE, content |-> NoText],
         quality |-> [fail |-> "none", pics |-> r], sharp |-> NoSharp] : r \in renders}
  \cup {[fetch |-> "ok", text |-> [ok |-> TRUE, content |-> t],
         quality |-> [fail |-> "none", pics |-> r], sharp |-> sh] :
          t \in texts \ {NoText}, r \in renders,
          sh \in {[fail |-> "render", pic |-> Ramp]}
                 \cup {[fail |-> "none", pic |-> tp] : tp \in sharps}}

OneBlank == <<Sharp800, Blank, Sharp800>>

PageInputs == PageInputsOver({NoText, BodyText}, {AllSharp, OneBlank}, {Ramp, Crisp})

PdfPictures == {Sharp400, Sharp800, Soft800, Blank}

RichPageInputs ==
  PageInputsOver(AllTextContents, PdfPictures \X PdfPictures \X PdfPictures, TextPictures)

(***************************************************************************)
(* Initial state: nothing loaded, no call made.                            *)
(***************************************************************************)
NoPdf ==
  /\ pdfPc = "idle"
  /\ pdfConfig = NoConfig
  /\ numPages = 0
  /\ pageNum = 1
  /\ extractedText = 0
  /\ isScanned = FALSE
  /\ pageResults = << >>
  /\ pageLog = << >>
  /\ pageTexts = << >>
  /\ pdfOutcome = Undefined

\* no buffer kept
NoBuffer == buffer = Undefined /\ bufferLog = << >>

\* the state of what the specification at hand leaves aside
\* the loaders before any load
PdfAnalyzers == {"pdfA", "pdfB"}
Loaders == {"opencv"} \cup PdfAnalyzers

NoLoads ==
  /\ loading = [l \in Loaders |-> FALSE]
  /\ pdfLib = [a \in PdfAnalyzers |-> FALSE]
  /\ scripts = [lib \in {"opencv", "pdfjs"} |-> 0]
  /\ loads = << >>

\* no analyses that overlap
NoOverlap == surface = Undefined /\ analyses = << >>

bufferVars == <<buffer, bufferLog>>
loadVars == <<loading, pdfLib, scripts, loads, callers>>
overlapVars == <<surface, analyses>>

Aside == NoBuffer /\ unitCall = Undefined /\ NoLoads /\ callers = << >> /\ NoOverlap

asideVars == <<bufferVars, unitCall, loadVars, overlapVars>>

clientVars == <<loaded, imgCall, imgOutcome>>

Init ==
  /\ loaded = FALSE
  /\ imgCall = Undefined
  /\ imgOutcome = Undefined
  /\ NoPdf
  /\ Aside

pdfVars == <<pdfPc, pdfConfig, numPages, pageNum, extractedText, isScanned,
             pageResults, pageLog, pageTexts, pdfOutcome>>

Idle == pdfPc = "idle" /\ imgCall = Undefined

(***************************************************************************)
(* BlurDetector.getImageData.  An input is of one of the four kinds the    *)
(* code tests with instanceof, or of another kind; readable tells whether  *)
(* a File decodes to an image (reader.onload, img.onload) and whether a    *)
(* source canvas gives a 2D context; canvasCtx, whether the detector's     *)
(* canvas (this.config.canvas) gives a 2D context.                         *)
(***************************************************************************)
RawInput == [kind |-> "ImageData", readable |-> TRUE]

Inputs ==
  {[kind |-> k, readable |-> TRUE] :
     k \in {"ImageData", "HTMLImageElement", "HTMLCanvasElement", "File", "other"}}
  \cup {[kind |-> k, readable |-> FALSE] : k \in {"HTMLCanvasElement", "File"}}

getImageData(input, canvasCtx) ==
  IF input.kind = "ImageData" THEN [ok |-> TRUE, error |-> ""]
  ELSE IF ~canvasCtx THEN [ok |-> FALSE, error |-> "Could not get 2D context from canvas"]
  ELSE IF input.kind = "File"
  THEN IF input.readable THEN [ok |-> TRUE, error |-> ""]
       ELSE [ok |-> FALSE, error |-> "error event"]
  ELSE IF input.kind = "HTMLImageElement" THEN [ok |-> TRUE, error |-> ""]
  ELSE IF input.kind = "HTMLCanvasElement"
  THEN IF input.readable THEN [ok |-> TRUE, error |-> ""]
       ELSE [ok |-> FALSE, error |-> "Could not get 2D context from source canvas"]
  ELSE [ok |-> FALSE, error |-> "Unsupported input type"]

(***************************************************************************)
(* analyzeImage, called on a BlurDetector built directly from the config   *)
(* or on the one BlurryCheck builds: getImageData (line 346, outside the   *)
(* try of line 356), then the analysis of the pixel buffer, the picture    *)
(* pic.  AnalyzeImage is the call on a raw pixel buffer.                   *)
(***************************************************************************)
DetectorConfig(entry, config) ==
  IF entry = "BlurryCheck" THEN BlurDetectorConfig(BlurryCheckConfig(config))
  ELSE BlurDetectorConfig(config)

UsesCv(config) == config.method \in {"laplacian", "both"}

\* a variant that asks the vision library under every method
CallsCvAlways(config, filterCtx) == TRUE

\* does the call reach detectBlurrinessWithOpenCV (line 377)?  Under 'both'
\* only when the edge stage before it did not throw
CallsCv(config, filterCtx) ==
  config.method = "laplacian" \/ (config.method = "both" /\ filterCtx)

AnalyzeImageWith(inputs, contexts, configs, pics) ==
  /\ Idle
  /\ \E entry \in {"BlurDetector", "BlurryCheck"}, config \in configs,
        input \in inputs, canvasCtx \in contexts, pic \in pics, filterCtx \in BOOLEAN :
       LET detector == DetectorConfig(entry, config)
           calls == getImageData(input, canvasCtx).ok /\ CallsCv(detector, filterCtx)
       IN  \E env \in IF calls THEN CvEnvs(pic) ELSE {NoEnv} :
             LET cv == IF calls THEN detectBlurrinessWithOpenCV(loaded, env) ELSE NoCv
             IN  /\ imgCall' = Some([entry |-> entry, config |-> config, pic |-> pic,
                                     env |-> env, filterCtx |-> filterCtx,
                                     wasLoaded |-> loaded,
                                     input |-> input, canvasCtx |-> canvasCtx])
                 /\ imgOutcome' =
                      Some(IF getImageData(input, canvasCtx).ok
                           THEN analyzeImage(detector, pic, cv, filterCtx)
                           ELSE [status |-> "rejected",
                                 error |-> getImageData(input, canvasCtx).error])
                 /\ loaded' = IF calls THEN cv.loaded ELSE loaded
  /\ UNCHANGED pdfVars
  /\ UNCHANGED asideVars

AnalyzeImage == AnalyzeImageWith({RawInput}, {TRUE}, ImageConfigs, Pictures)

(***************************************************************************)
(* analyzePDF, lines 356-372: the library load and the decoding of the     *)
(* document; open is their outcome.                                        *)
(***************************************************************************)
StartPDF ==
  /\ Idle
  /\ \E config \in PdfConfigs, n \in 0..MaxPages,
        open \in {"ok", "load failed", "decode failed"} :
       /\ pdfConfig' = config
       /\ numPages' = IF open = "ok" THEN n ELSE 0
       /\ pdfPc' = IF open = "ok" THEN "loop" ELSE "rejected"
       /\ pdfOutcome' = IF open = "ok" THEN Undefined
                        ELSE IF open = "load failed"
                        THEN Some([status |-> "rejected", error |-> "Failed to load PDF.js"])
                        ELSE Some([status |-> "rejected", error |-> "PDF analysis failed"])
  /\ pageNum' = 1
  /\ extractedText' = 0
  /\ isScanned' = FALSE
  /\ pageResults' = << >>
  /\ pageLog' = << >>
  /\ pageTexts' = << >>
  /\ UNCHANGED <<loaded, imgCall, imgOutcome>>
  /\ UNCHANGED asideVars

\* what an iteration that did step does to the state of the call
LoopStep(step) ==
  /\ pageLog' = Append(pageLog, step.log)
  /\ IF step.abort
     THEN /\ pdfPc' = "rejected"
          /\ pdfOutcome' = Some([status |-> "rejected", error |-> "PDF analysis failed"])
          /\ UNCHANGED <<pageNum, extractedText, isScanned, pageResults>>
     ELSE /\ isScanned' = (isScanned \/ step.scanned)
          /\ extractedText' = extractedText + step.text
          /\ pageResults' = pageResults \o step.push
          /\ pageNum' = pageNum + 1
          /\ UNCHANGED <<pdfPc, pdfOutcome>>

\* one iteration of the loop, lines 374-435, with its inputs drawn from inputs
AnalyzePageWith(inputs) ==
  /\ pdfPc = "loop"
  /\ pageNum <= numPages
  /\ \E inp \in inputs :
       /\ LoopStep(PageStep(pdfConfig, pageNum, inp))
       /\ pageTexts' = IF inp.fetch = "ok" /\ inp.text.ok
                       THEN Append(pageTexts, inp.text.content)
                       ELSE pageTexts
  /\ UNCHANGED <<loaded, imgCall, imgOutcome, pdfConfig, numPages>>
  /\ UNCHANGED asideVars

AnalyzePage == AnalyzePageWith(PageInputs)

\* the end of the loop, lines 437-490
FinishPDF ==
  /\ pdfPc = "loop"
  /\ pageNum > numPages
  /\ pdfPc' = "done"
  /\ pdfOutcome' = Some([status |-> "returned",
                         result |-> PdfResult(pageResults, isScanned, extractedText,
                                              numPages)])
  /\ UNCHANGED <<loaded, imgCall, imgOutcome, pdfConfig, numPages, pageNum,
                 extractedText, isScanned, pageResults, pageLog, pageTexts>>
  /\ UNCHANGED asideVars

\* the caller drops the outcome of its latest call before the next one
Discard ==
  /\ \/ imgCall # Undefined
     \/ pdfPc \in {"done", "rejected"}
  /\ imgCall' = Undefined
  /\ imgOutcome' = Undefined
  /\ pdfPc' = "idle"
  /\ pdfConfig' = NoConfig
  /\ numPages' = 0
  /\ pageNum' = 1
  /\ extractedText' = 0
  /\ isScanned' = FALSE
  /\ pageResults' = << >>
  /\ pageLog' = << >>
  /\ pageTexts' = << >>
  /\ pdfOutcome' = Undefined
  /\ UNCHANGED loaded
  /\ UNCHANGED asideVars

Next == AnalyzeImage \/ StartPDF \/ AnalyzePage \/ FinishPDF \/ Discard

Spec == Init /\ [][Next]_vars

(***************************************************************************)
(* checkPdfPageQuality and the combination with the text analysis, on the  *)
(* last page of a document whose earlier pages (MaxProbePages - 1 at most) *)
(* all failed to render, each with no text or a short line: the page is    *)
(* drawn from every triple of renderings and every text of the model.      *)
(***************************************************************************)
RECURSIVE Repeat(_, _)
Repeat(v, n) == IF n = 0 THEN << >> ELSE Append(Repeat(v, n - 1), v)

InitPage ==
  /\ loaded = FALSE
  /\ imgCall = Undefined
  /\ imgOutcome = Undefined
  /\ pdfPc = "loop"
  /\ pdfConfig \in ProbeConfigs
  /\ numPages \in 1..MaxProbePages
  /\ pageNum = numPages
  /\ \E early \in [1..(numPages - 1) -> {NoText, ShortText}] :
       /\ pageTexts = early
       /\ extractedText = SumOver({<<k, early[k].joined>> : k \in 1..(numPages - 1)}, 0)
       /\ isScanned = (\E k \in 1..(numPages - 1) : early[k].items = 0)
  /\ pageResults = << >>
  /\ pageLog = Repeat("quality failed", numPages - 1)
  /\ pdfOutcome = Undefined
  /\ Aside

AnalyzePageRich == AnalyzePageWith(RichPageInputs)

NextPage == AnalyzePageRich \/ FinishPDF \/ Discard

SpecPage == InitPage /\ [][NextPage]_vars

(***************************************************************************)
(* The document policy, on the page results of documents of up to          *)
(* MaxDocPages pages without text, each page clear, blurry or skipped      *)
(* (its rendering failed): the state at the end of the loop.               *)
(***************************************************************************)
PolicyInput(kind) ==
  [fetch |-> "ok", text |-> [ok |-> TRUE, content |-> NoText],
   quality |-> [fail |-> IF kind = "skipped" THEN "render" ELSE "none",
                pics |-> IF kind = "clear" THEN AllSharp ELSE OneBlank],
   sharp |-> NoSharp]

PolicyTable ==
  {<<kind, PageStep(NoConfig, 1, PolicyInput(kind))>> : kind \in {"clear", "blurry", "skipped"}}

policyStepOf(kind) == (CHOOSE p \in PolicyTable : p[1] = kind)[2]

RECURSIVE PolicyResults(_, _)
PolicyResults(kinds, n) ==
  IF n = 0 THEN << >> ELSE PolicyResults(kinds, n - 1) \o policyStepOf(kinds[n]).push

InitPolicy ==
  /\ loaded = FALSE
  /\ imgCall = Undefined
  /\ imgOutcome = Undefined
  /\ pdfPc = "loop"
  /\ pdfConfig = NoConfig
  /\ numPages \in 0..MaxDocPages
  /\ pageNum = numPages + 1
  /\ extractedText = 0
  /\ isScanned = (numPages > 0)
  /\ \E kinds \in [1..numPages -> {"clear", "blurry", "skipped"}] :
       /\ pageResults = PolicyResults(kinds, numPages)
       /\ pageLog = [k \in 1..numPages |-> policyStepOf(kinds[k]).log]
  /\ pageTexts = [k \in 1..numPages |-> NoText]
  /\ pdfOutcome = Undefined
  /\ Aside

NextPolicy == FinishPDF \/ Discard

SpecPolicy == InitPolicy /\ [][NextPolicy]_vars

(***************************************************************************)
(* The edge estimator on a buffer the caller keeps.  The memory of a run   *)
(* is a heap, the sequence of the ImageData alive, an address being an     *)
(* index; the caller's buffer is at address 1.  Filters.luminance and      *)
(* Filters.convolve read their source and write their output, which is     *)
(* the ImageData that Filters.createImageData made for the call.           *)
(***************************************************************************)
\* a filter whose output is its source (it would write in place)
OutputInPlace(heap, src) == src

\* const output = this.createImageData(w, h): a new ImageData at every call
OutputBuffer(heap, src) == Len(heap) + 1

StoreAt(heap, addr, imageData) ==
  IF addr > Len(heap) THEN Append(heap, imageData) ELSE [heap EXCEPT ![addr] = imageData]

luminanceIn(heap, src) ==
  LET dst == OutputBuffer(heap, src)
  IN  [heap |-> StoreAt(heap, dst, luminance(heap[src])), out |-> dst]

convolveIn(heap, src, weights, opaque) ==
  LET dst == OutputBuffer(heap, src)
  IN  [heap |-> StoreAt(heap, dst, convolve(heap[src], weights, opaque)), out |-> dst]

\* measureBlurByEdges on the buffer at address src
measureBlurByEdgesIn(heap, src) ==
  LET greyscaled == luminanceIn(heap, src)
      edges == convolveIn(greyscaled.heap, greyscaled.out, sobelKernel, TRUE)
  IN  [heap |-> edges.heap,
       metrics |-> detectBlur(reducedPixels(edges.heap[edges.out]))]

MaxRuns == 3

\* the buffers a caller keeps: small pictures, flat and with edges
BufferPictures ==
  {p \in FlatPictures : p.w <= MaxFlatSide}
  \cup {p \in CheckerPictures : p.w = 8}
  \cup {[kind |-> "cols", w |-> 8, h |-> 2, pat |-> <<0, 64, 128, 255, 30>>],
        [kind |-> "cols", w |-> 6, h |-> 1, pat |-> <<0, 200, 10>>]}

InitBuffer ==
  /\ loaded \in BOOLEAN
  /\ imgCall = Undefined
  /\ imgOutcome = Undefined
  /\ NoPdf
  /\ \E pic \in BufferPictures : buffer = Some([pic |-> pic, imageData |-> ImageDataOf(pic)])
  /\ bufferLog = << >>
  /\ unitCall = Undefined
  /\ NoLoads /\ callers = << >>
  /\ NoOverlap

\* the edge estimator runs on the caller's buffer
MeasureEdges ==
  /\ buffer # Undefined
  /\ Len(bufferLog) < MaxRuns
  /\ LET run == measureBlurByEdgesIn(<<buffer[1].imageData>>, 1)
     IN  /\ buffer' = Some([buffer[1] EXCEPT !.imageData = run.heap[1]])
         /\ bufferLog' = Append(bufferLog, [analysis |-> "edge", metrics |-> Some(run.metrics)])
  /\ UNCHANGED <<clientVars, pdfVars, unitCall, loadVars, overlapVars>>

\* another analysis runs on it: the variance estimator, whose
\* cv.matFromImageData copies the buffer into a matrix of the library
MeasureVariance ==
  /\ buffer # Undefined
  /\ Len(bufferLog) < MaxRuns
  /\ loaded
  /\ bufferLog' = Append(bufferLog, [analysis |-> "laplacian", metrics |-> Undefined])
  /\ UNCHANGED <<buffer, clientVars, pdfVars, unitCall, loadVars, overlapVars>>

NextBuffer == MeasureEdges \/ MeasureVariance

SpecBuffer == InitBuffer /\ [][NextBuffer]_vars

(***************************************************************************)
(* The methods of PDFAnalyzer that work on one page, each called on its    *)
(* own: analyzeTextSharpness on a page with the text content and the       *)
(* rendering given, analyzePageContent on a text and a page number.        *)
(***************************************************************************)
\* the texts given to analyzePageContent: one or twelve items, of a length
\* on either side of 200 and of 500 (one of them 201 characters of which 199
\* are left by trim()), with every combination of the three patterns
ContentLengths == {<<20, 20>>, <<199, 199>>, <<201, 199>>, <<200, 200>>,
                   <<499, 499>>, <<500, 500>>}

ContentTexts ==
  AllTextContents
    \cup {[items |-> n, joined |-> len[1], trimmed |-> len[2], hasHeaderKeywords |-> kw,
            hasDatePattern |-> dt, hasAmountPattern |-> am] :
             n \in {1, 12}, len \in ContentLengths,
             kw \in BOOLEAN, dt \in BOOLEAN, am \in BOOLEAN}

SharpInputs ==
  {[fail |-> f, pic |-> tp] : f \in {"none", "fetch", "context", "render"}, tp \in TextPictures}

InitUnit ==
  /\ loaded = FALSE
  /\ imgCall = Undefined
  /\ imgOutcome = Undefined
  /\ NoPdf
  /\ NoBuffer
  /\ NoLoads /\ callers = << >>
  /\ NoOverlap
  /\ \/ \E t \in AllTextContents, sh \in SharpInputs :
          unitCall = Some([method |-> "analyzeTextSharpness", textContent |-> t,
                           pageNumber |-> 1, sharp |-> sh, result |-> Undefined])
     \/ \E t \in ContentTexts, n \in 1..MaxPages :
          unitCall = Some([method |-> "analyzePageContent", textContent |-> t,
                           pageNumber |-> n, sharp |-> NoSharp, result |-> Undefined])

Pending(method) ==
  /\ unitCall # Undefined
  /\ unitCall[1].method = method
  /\ unitCall[1].result = Undefined

ApplyTextSharpness ==
  /\ Pending("analyzeTextSharpness")
  /\ unitCall' = Some([unitCall[1] EXCEPT !.result =
                         Some(analyzeTextSharpness(unitCall[1].textContent,
                                                   unitCall[1].sharp))])
  /\ UNCHANGED <<clientVars, pdfVars, bufferVars, loadVars, overlapVars>>

ApplyPageContent ==
  /\ Pending("analyzePageContent")
  /\ unitCall' = Some([unitCall[1] EXCEPT !.result =
                         Some(analyzePageContent(unitCall[1].textContent,
                                                 unitCall[1].pageNumber))])
  /\ UNCHANGED <<clientVars, pdfVars, bufferVars, loadVars, overlapVars>>

NextUnit == ApplyTextSharpness \/ ApplyPageContent

SpecUnit == InitUnit /\ [][NextUnit]_vars

(***************************************************************************)
(* The loads of the two libraries, with callers that overlap.              *)
(* OpenCVLoader.loadOpenCV / waitForLoad (opencv-loader.ts) and            *)
(* PDFAnalyzer.loadPdfJS / waitForLoad (pdf-analyzer.ts).  There is one    *)
(* OpenCVLoader (getInstance), while pdfLib and loading are fields of each *)
(* PDFAnalyzer.  A load is a call that went past the two guards and        *)
(* created a script element:                                               *)
(*   state    "fetching" until the script's onload or onerror,             *)
(*            "polling" while the interval of loadOpenCV looks for         *)
(*            window.cv, then "ready" or "failed"                          *)
(*   timer    the 10 s timer of loadOpenCV is pending (it is set at        *)
(*            onload and never cleared)                                    *)
(*   removed  its script element was removed from the document by a later  *)
(*            load while it was fetching or polling                        *)
(* The timers are not measured: a download may take any time, so the 15 s  *)
(* timer of a waiter may fire at any moment at which the loader is still   *)
(* loading, and the 10 s timer at any moment after onload.                 *)
(***************************************************************************)
MaxLoads == 2

Callers == {"c1", "c2", "c3"}

LibOf(l) == IF l = "opencv" THEN "opencv" ELSE "pdfjs"

\* this.loaded && window.cv, this.pdfLib
Ready(l) == IF l = "opencv" THEN loaded ELSE pdfLib[l]

InFlight(k) == loads[k].state \in {"fetching", "polling"}

\* the load in progress of loader l
CurrentLoad(l) ==
  IF \E k \in 1..Len(loads) : loads[k].loader = l /\ InFlight(k)
  THEN CHOOSE k \in 1..Len(loads) : loads[k].loader = l /\ InFlight(k)
  ELSE 0

IdleCaller(l) == [loader |-> l, status |-> "idle", error |-> "", via |-> "none", joined |-> 0]

\* who calls: three BlurDetectors, which share the OpenCVLoader, or
\* two calls on one PDFAnalyzer and a call on another one
InitLoad ==
  /\ loaded = FALSE
  /\ imgCall = Undefined
  /\ imgOutcome = Undefined
  /\ NoPdf
  /\ NoBuffer
  /\ unitCall = Undefined
  /\ NoOverlap
  /\ NoLoads
  /\ \/ callers = [c \in Callers |-> IdleCaller("opencv")]
     \/ callers = [c \in Callers |-> IdleCaller(IF c = "c3" THEN "pdfB" ELSE "pdfA")]

\* the promise of the caller that owns load k settles
SettleOwner(k, status, error) ==
  [c \in Callers |->
     IF callers[c].status = "loading" /\ callers[c].joined = k
     THEN [callers[c] EXCEPT !.status = status, !.error = error]
     ELSE callers[c]]

\* loadOpenCV (lines 28-89) and loadPdfJS (lines 39-91) up to the await
RequestLoad(c) ==
  /\ callers[c].status = "idle"
  /\ LET l == callers[c].loader
         lib == LibOf(l)
         k == Len(loads) + 1
     IN  IF Ready(l)
         THEN /\ callers' = [callers EXCEPT ![c].status = "resolved", ![c].via = "ready"]
              /\ UNCHANGED <<loading, scripts, loads>>
         ELSE IF loading[l]
         THEN /\ callers' = [callers EXCEPT ![c].status = "waiting", ![c].via = "wait",
                                            ![c].joined = CurrentLoad(l)]
              /\ UNCHANGED <<loading, scripts, loads>>
         ELSE /\ Len(loads) < MaxLoads
              /\ loading' = [loading EXCEPT ![l] = TRUE]
              /\ loads' = Append([j \in 1..Len(loads) |->
                                    IF j = scripts[lib] /\ InFlight(j)
                                    THEN [loads[j] EXCEPT !.removed = TRUE]
                                    ELSE loads[j]],
                                 [loader |-> l, state |-> "fetching", timer |-> FALSE,
                                  removed |-> FALSE])
              /\ scripts' = [scripts EXCEPT ![lib] = k]
              /\ callers' = [callers EXCEPT ![c].status = "loading", ![c].via = "load",
                                            ![c].joined = k]
  /\ UNCHANGED <<loaded, pdfLib>>

\* script.onload.  For OpenCV the interval and the 10 s timer start; for
\* PDF.js the load ends, on whether window.pdfjsLib is there
ScriptLoad(k) ==
  /\ loads[k].state = "fetching"
  /\ LET l == loads[k].loader
     IN  IF l = "opencv"
         THEN /\ loads' = [loads EXCEPT ![k].state = "polling", ![k].timer = TRUE]
              /\ UNCHANGED <<loaded, pdfLib, loading, callers>>
         ELSE \E available \in BOOLEAN :
                IF available
                THEN /\ loads' = [loads EXCEPT ![k].state = "ready"]
                     /\ pdfLib' = [pdfLib EXCEPT ![l] = TRUE]
                     /\ UNCHANGED loaded
                     /\ loading' = [loading EXCEPT ![l] = FALSE]
                     /\ callers' = SettleOwner(k, "resolved", "")
                ELSE /\ loads' = [loads EXCEPT ![k].state = "failed"]
                     /\ loading' = [loading EXCEPT ![l] = FALSE]
                     /\ callers' = SettleOwner(k, "rejected",
                                               "PDF.js not available after loading")
                     /\ UNCHANGED <<loaded, pdfLib>>
  /\ UNCHANGED scripts

\* script.onerror
ScriptError(k) ==
  /\ loads[k].state = "fetching"
  /\ loads' = [loads EXCEPT ![k].state = "failed"]
  /\ loading' = [loading EXCEPT ![loads[k].loader] = FALSE]
  /\ callers' = SettleOwner(k, "rejected",
                            IF loads[k].loader = "opencv" THEN "Failed to load OpenCV"
                            ELSE "Failed to load PDF.js")
  /\ UNCHANGED <<loaded, pdfLib, scripts>>

\* the interval of loadOpenCV finds window.cv (lines 60-67)
CvFound(k) ==
  /\ loads[k].state = "polling"
  /\ loads' = [loads EXCEPT ![k].state = "ready"]
  /\ loaded' = TRUE
  /\ loading' = [loading EXCEPT ![loads[k].loader] = FALSE]
  /\ callers' = SettleOwner(k, "resolved", "")
  /\ UNCHANGED <<pdfLib, scripts>>

\* the 10 s timer of loadOpenCV fires (lines 70-74): it clears the flag and
\* rejects, which does nothing to a promise that is resolved
LoadTimeout(k) ==
  /\ loads[k].timer
  /\ loading' = [loading EXCEPT ![loads[k].loader] = FALSE]
  /\ IF loads[k].state = "polling"
     THEN /\ loads' = [loads EXCEPT ![k].state = "failed", ![k].timer = FALSE]
          /\ callers' = SettleOwner(k, "rejected", "OpenCV loading timeout")
     ELSE /\ loads' = [loads EXCEPT ![k].timer = FALSE]
          /\ UNCHANGED callers
  /\ UNCHANGED <<loaded, pdfLib, scripts>>

FailedToLoad(l) == IF l = "opencv" THEN "OpenCV failed to load" ELSE "PDF.js failed to load"

\* the interval of waitForLoad sees the flag down
WaiterPoll(c) ==
  /\ callers[c].status = "waiting"
  /\ ~loading[callers[c].loader]
  /\ callers' = IF Ready(callers[c].loader)
                THEN [callers EXCEPT ![c].status = "resolved"]
                ELSE [callers EXCEPT ![c].status = "rejected",
                                     ![c].error = FailedToLoad(callers[c].loader)]
  /\ UNCHANGED <<loaded, loading, pdfLib, scripts, loads>>

\* a variant of waitForLoad without the 15 s timer
WaiterTimeoutNever(c) ==
  /\ callers[c].status = "waiting"
  /\ FALSE
  /\ UNCHANGED <<loaded, loading, pdfLib, scripts, loads, callers>>

\* the 15 s timer of waitForLoad fires while the flag is still up
WaiterTimeout(c) ==
  /\ callers[c].status = "waiting"
  /\ loading[callers[c].loader]
  /\ callers' = [callers EXCEPT ![c].status = "rejected",
                                ![c].error = IF callers[c].loader = "opencv"
                                             THEN "OpenCV loading timeout"
                                             ELSE "PDF.js loading timeout"]
  /\ UNCHANGED <<loaded, loading, pdfLib, scripts, loads>>

\* the caller takes the outcome and may call again
CallerDone(c) ==
  /\ callers[c].status \in {"resolved", "rejected"}
  /\ callers' = [callers EXCEPT ![c] = IdleCaller(callers[c].loader)]
  /\ UNCHANGED <<loaded, loading, pdfLib, scripts, loads>>

LoadFrame == UNCHANGED <<imgCall, imgOutcome, pdfVars, bufferVars, unitCall, overlapVars>>

NextLoad ==
  \/ \E c \in Callers : RequestLoad(c) /\ LoadFrame
  \/ \E k \in 1..Len(loads) : ScriptLoad(k) /\ LoadFrame
  \/ \E k \in 1..Len(loads) : ScriptError(k) /\ LoadFrame
  \/ \E k \in 1..Len(loads) : CvFound(k) /\ LoadFrame
  \/ \E k \in 1..Len(loads) : LoadTimeout(k) /\ LoadFrame
  \/ \E c \in Callers : WaiterPoll(c) /\ LoadFrame
  \/ \E c \in Callers : WaiterTimeout(c) /\ LoadFrame
  \/ \E c \in Callers : CallerDone(c) /\ LoadFrame

SpecLoad == InitLoad /\ [][NextLoad]_vars

(***************************************************************************)
(* The same loads where the timers that are set do fire.  A waiter has its *)
(* interval (100 ms) and its 15 s timer running from the moment            *)
(* waitForLoad is called, and loadOpenCV's 10 s timer runs from onload;    *)
(* the event loop runs them, so each of these steps is taken when it stays *)
(* possible.  Nothing makes a download end or window.cv appear, and no     *)
(* caller has to call: those steps are left without fairness.              *)
(***************************************************************************)
WaiterActs(c) == (WaiterPoll(c) \/ WaiterTimeout(c)) /\ LoadFrame

TimersFire ==
  /\ \A c \in Callers : WF_vars(WaiterActs(c))
  /\ \A k \in 1..MaxLoads : WF_vars(k <= Len(loads) /\ LoadTimeout(k) /\ LoadFrame)

SpecLoadFair == SpecLoad /\ TimersFire

(***************************************************************************)
(* Two analyses that overlap, and the canvases they draw on.  An analysis  *)
(* of a PDF page (checkPdfPageQuality, lines 124-139) takes               *)
(* this.config.canvas, or a new canvas if the caller gave none, sets its   *)
(* size, starts page.render and awaits it; when the render is done it      *)
(* reads the pixels back, and goes on to the next scale.  An analysis of   *)
(* an image element or a file (BlurDetector.getImageData) sets the size,   *)
(* draws and reads back in one step.  Per canvas:                          *)
(*   sized      the analysis that set its size last                        *)
(*   rendering  the analyses with a render in flight against it            *)
(* and per analysis: intruded, another analysis resized or drew on its     *)
(* canvas between its resize and its read-back; clean, what it read back   *)
(* so far was on a canvas of the size it had set.                          *)
(***************************************************************************)
Analyses == {"a1", "a2"}

InitOverlap ==
  /\ loaded = FALSE
  /\ imgCall = Undefined
  /\ imgOutcome = Undefined
  /\ NoPdf
  /\ NoBuffer
  /\ unitCall = Undefined
  /\ NoLoads /\ callers = << >>
  /\ surface = [c \in {"caller"} \cup Analyses |-> [sized |-> "none", rendering |-> {}]]
  /\ \E given \in BOOLEAN, other \in {"pdf", "image"} :
       analyses = [a \in Analyses |->
                     [kind |-> IF a = "a1" THEN "pdf" ELSE other,
                      canvas |-> IF given THEN "caller" ELSE a,
                      pc |-> "start", scale |-> 1, intruded |-> FALSE, clean |-> TRUE]]

\* what a resize or a drawing by analysis a on canvas c does to the others
Intrude(a, c) ==
  [b \in Analyses |->
     IF b # a /\ analyses[b].canvas = c /\ analyses[b].pc = "rendering"
     THEN [analyses[b] EXCEPT !.intruded = TRUE]
     ELSE analyses[b]]

\* checkPdfPageQuality, lines 124-137: the canvas, its size, page.render
BeginRender(a) ==
  /\ analyses[a].kind = "pdf"
  /\ analyses[a].pc = "start"
  /\ LET c == analyses[a].canvas
     IN  /\ surface' = [surface EXCEPT ![c] = [sized |-> a,
                                               rendering |-> surface[c].rendering \cup {a}]]
         /\ analyses' = [Intrude(a, c) EXCEPT ![a].pc = "rendering"]

\* lines 137-139: the render is done, the pixels are read back
EndRender(a) ==
  /\ analyses[a].pc = "rendering"
  /\ LET c == analyses[a].canvas
     IN  /\ surface' = [surface EXCEPT ![c].rendering = surface[c].rendering \ {a}]
         /\ analyses' = [analyses EXCEPT
                           ![a].clean = analyses[a].clean /\ surface[c].sized = a,
                           ![a].pc = IF analyses[a].scale < Len(scales) THEN "start"
                                     ELSE "done",
                           ![a].scale = IF analyses[a].scale < Len(scales)
                                        THEN analyses[a].scale + 1
                                        ELSE analyses[a].scale]

\* BlurDetector.getImageData, lines 306-310 and 320-324: size, drawImage
\* and getImageData in one step
DrawImage(a) ==
  /\ analyses[a].kind = "image"
  /\ analyses[a].pc = "start"
  /\ LET c == analyses[a].canvas
     IN  /\ surface' = [surface EXCEPT ![c].sized = a]
         /\ analyses' = [Intrude(a, c) EXCEPT ![a].pc = "done"]

OverlapFrame == UNCHANGED <<clientVars, pdfVars, bufferVars, unitCall, loadVars>>

NextOverlap ==
  \/ \E a \in Analyses : BeginRender(a) /\ OverlapFrame
  \/ \E a \in Analyses : EndRender(a) /\ OverlapFrame
  \/ \E a \in Analyses : DrawImage(a) /\ OverlapFrame

SpecOverlap == InitOverlap /\ [][NextOverlap]_vars

(***************************************************************************)
(* analyzeImage on inputs of every kind, with a detector canvas that gives *)
(* a 2D context or none; the pictures are the ones a raw buffer holds or   *)
(* an image, a canvas or a file decodes to.                                *)
(***************************************************************************)
InputConfigs ==
  {[NoConfig EXCEPT !.method = m] : m \in {Some("edge"), Some("laplacian")}}

InputPictures == {Blank, Sharp800}

AnalyzeImageInput == AnalyzeImageWith(Inputs, BOOLEAN, InputConfigs, InputPictures)

NextInput == AnalyzeImageInput \/ Discard

SpecInput == Init /\ [][NextInput]_vars

(***************************************************************************)
(* BlurDetector.detectBlur called on its own, on the rows of an edge map:  *)
(* one row of up to MaxRowLen pixels, or two rows of up to MaxPairLen      *)
(* pixels, every pixel at one of the levels that the scan tells apart      *)
(* (0, under 20, 20, over 20).                                             *)
(***************************************************************************)
MaxRowLen == 5
MaxPairLen == 3

ScanLevels == {0, 10, 19, 20}

RowsOf(w) == [0..(w - 1) -> ScanLevels]

ScanPictures ==
  UNION {[0..0 -> RowsOf(w)] : w \in 1..MaxRowLen}
    \cup UNION {[0..1 -> RowsOf(w)] : w \in 1..MaxPairLen}

InitScan ==
  /\ loaded = FALSE
  /\ imgCall = Undefined
  /\ imgOutcome = Undefined
  /\ NoPdf
  /\ NoBuffer
  /\ NoLoads /\ callers = << >>
  /\ NoOverlap
  /\ \E p \in ScanPictures :
       unitCall = Some([method |-> "detectBlur", pixels |-> p, result |-> Undefined])

ApplyDetectBlur ==
  /\ Pending("detectBlur")
  /\ unitCall' = Some([unitCall[1] EXCEPT !.result = Some(detectBlur(unitCall[1].pixels))])
  /\ UNCHANGED <<clientVars, pdfVars, bufferVars, loadVars, overlapVars>>

NextScan == ApplyDetectBlur

SpecScan == InitScan /\ [][NextScan]_vars

(***************************************************************************)
(* Properties.                                                             *)
(***************************************************************************)
\* what a finished analyzePDF call returned
Returned == pdfPc = "done"
ReturnedGood == pdfOutcome[1].result.isQualityGood

LaterBlurry == {k \in 2..Len(pageResults) : pageResults[k].isBlurry}

OnlyFirstBlurry == pageResults[1].isBlurry /\ LaterBlurry = {}

\* C1: a document with two or more page results whose first page result is
\* blurry and none of whose later page results is blurry is returned with
\* isQualityGood = true.
C1_OnlyFirstPageBlurryIsGood ==
  (Returned /\ Len(pageResults) >= 2 /\ OnlyFirstBlurry) => ReturnedGood = TRUE

\* three page results, only the first blurry, returned as good
C1_Witness ==
  /\ Returned /\ Len(pageResults) = 3 /\ OnlyFirstBlurry
  /\ ReturnedGood = TRUE

\* C2: a document with two or more page results that is not the "only the
\* first page is blurry" case is returned with isQualityGood = false exactly
\* when the blurry later page results are at least half (rounded up) of the
\* later page results, and with isQualityGood = true otherwise.
C2_MajorityOfLaterPages ==
  (Returned /\ Len(pageResults) >= 2 /\ ~OnlyFirstBlurry)
    => (ReturnedGood = FALSE <=> 2 * Cardinality(LaterBlurry) >= Len(pageResults) - 1)

\* five page results with pages 2, 3 and 4 blurry, returned as not good
C2_Witness ==
  /\ Returned /\ Len(pageResults) = 5
  /\ Blurry(pageResults) = {2, 3, 4}
  /\ ReturnedGood = FALSE

\* C3: a document with exactly one page result is returned with
\* isQualityGood equal to the negation of that page result's isBlurry.
C3_SinglePage ==
  (Returned /\ Len(pageResults) = 1) => (ReturnedGood <=> ~pageResults[1].isBlurry)

\* one blurry page result, returned as not good
C3_Witness ==
  /\ Returned /\ Len(pageResults) = 1 /\ pageResults[1].isBlurry
  /\ ReturnedGood = FALSE

\* the pages of the call, by what happened to them
PagesLogged(events) == {k \in 1..Len(pageLog) : pageLog[k] \in events}

\* C4: a failure while processing a single page (fetching it, extracting its
\* text, rendering it, estimating its blur) never aborts analyzePDF: once
\* the document is open the call is not rejected, every page is processed,
\* the failing pages are left out of pageResults and a result is returned.
C4_PageFailureNeverAborts ==
  /\ pdfPc = "rejected" => pageLog = << >>
  /\ Returned => /\ Len(pageLog) = numPages
                 /\ Len(pageResults) = numPages - Cardinality(PagesLogged({"quality failed"}))

QEq(a, b) == a[1] * b[2] = b[1] * a[2]

InUnitInterval(c) == QLe(Zero, c) /\ QLe(c, One)

\* the analyzeImage call made, what it returned, and the detector it ran on
Called == imgCall # Undefined
CallReturned == Called /\ imgOutcome[1].status = "returned"
CallDetector == DetectorConfig(imgCall[1].entry, imgCall[1].config)
CallCv == detectBlurrinessWithOpenCV(imgCall[1].wasLoaded, imgCall[1].env)
CallResult == imgOutcome[1].result

\* C5: the confidence of every result is within [0, 1]: the results of
\* analyzeImage on every method and on the fallback path, the scale results
\* and the merged result of a page, and the page results combined with the
\* text sharpness.
C5_ConfidenceWithinUnitInterval ==
  /\ CallReturned => InUnitInterval(CallResult.confidence)
  /\ \A k \in 1..Len(pageResults) :
       /\ InUnitInterval(pageResults[k].confidence)
       /\ \A j \in DOMAIN pageResults[k].metrics.scaleResults :
            InUnitInterval(pageResults[k].metrics.scaleResults[j].confidence)

ScaleVerdicts(entry) ==
  {j \in DOMAIN entry.metrics.scaleResults : entry.metrics.scaleResults[j].isBlurry}

\* C6: the multi-scale verdict of a page is blurry whenever at least one of
\* its three scale analyses reports blur, and not blurry when none does
\* (read on the page results that are the multi-scale result as it came).
C6_AnyScaleBlurry ==
  \A k \in 1..Len(pageResults) :
    ~pageResults[k].method.textAnalysis =>
      /\ DOMAIN pageResults[k].metrics.scaleResults = 1..3
      /\ pageResults[k].isBlurry <=> ScaleVerdicts(pageResults[k]) # {}

\* a page found blurry on the report of the middle scale alone
C6_Witness ==
  \E k \in 1..Len(pageResults) :
    /\ ~pageResults[k].method.textAnalysis
    /\ ScaleVerdicts(pageResults[k]) = {2}
    /\ pageResults[k].isBlurry

\* C7: when the vision library fails (it is not loaded and its load fails or
\* times out, or its computation throws) under method 'laplacian' or
\* 'both', the call returns a result computed by the edge estimator whose
\* method tag marks it as a fallback.
C7_VisionFailureFallsBack ==
  (Called /\ UsesCv(CallDetector) /\ ~CallCv.ok /\ imgCall[1].filterCtx)
    => /\ CallReturned
       /\ CallResult.metrics.edgeAnalysis = Some(edgeAnalysisOf(imgCall[1].pic))
       /\ CallResult.method \notin {"edge", "laplacian", "both"}

\* C8: with method 'both' and a variance obtained from the vision library,
\* isBlurry is the edge verdict (edge width over the threshold, or too few
\* edges) or variance < threshold, confidence is the larger of the edge
\* confidence and min(threshold / variance, 1), for every variance, 0
\* included, and both metrics are in the result.
C8_BothCombinesTheTwo ==
  (CallReturned /\ CallDetector.method = "both" /\ CallCv.ok)
    => LET ea == edgeAnalysisOf(imgCall[1].pic)
           variance == CallCv.variance
           edgeVerdict == \/ QLt(CallDetector.edgeWidthThreshold, ea.avgEdgeWidthPerc)
                          \/ ea.numEdges * 10000 < imgCall[1].pic.w * imgCall[1].pic.h
           edgeConf == QMin(QDiv(ea.avgEdgeWidthPerc, CallDetector.edgeWidthThreshold), One)
           varConf == QMin(QDiv(CallDetector.laplacianThreshold, variance), One)
       IN  /\ CallResult.isBlurry <=>
                (edgeVerdict \/ QLt(variance, CallDetector.laplacianThreshold))
           /\ QEq(CallResult.confidence, QMax(edgeConf, varConf))
           /\ CallResult.metrics.edgeAnalysis = Some(ea)
           /\ CallResult.metrics.laplacianVariance = Some(variance)

\* C9: on a buffer of one flat colour, of any size, the edge estimator finds
\* no edge (numEdges, avgEdgeWidth and avgEdgeWidthPerc are 0), and the
\* edge method reports it blurry because of the low edge count, the edge
\* width being under the threshold.
C9_FlatBufferIsBlurry ==
  (CallReturned /\ imgCall[1].pic.kind = "flat")
    => /\ CallResult.metrics.edgeAnalysis # Undefined
            => /\ CallResult.metrics.edgeAnalysis[1].numEdges = 0
               /\ CallResult.metrics.edgeAnalysis[1].avgEdgeWidth = Zero
               /\ CallResult.metrics.edgeAnalysis[1].avgEdgeWidthPerc = Zero
       /\ CallResult.method = "edge"
            => /\ CallResult.isBlurry = TRUE
               /\ CallResult.metrics.edgeAnalysis # Undefined
               /\ ~QLt(CallDetector.edgeWidthThreshold,
                       CallResult.metrics.edgeAnalysis[1].avgEdgeWidthPerc)

\* a flat buffer of more than one pixel found blurry by the edge method
C9_Witness ==
  /\ CallReturned
  /\ imgCall[1].pic.kind = "flat" /\ imgCall[1].pic.w * imgCall[1].pic.h > 1
  /\ CallResult.method = "edge"
  /\ CallResult.metrics.edgeAnalysis[1].numEdges = 0
  /\ CallResult.isBlurry = TRUE

\* C10: a black and white checkerboard analysed with the edge method and
\* the default thresholds is found not blurry, whatever the cell size.
C10_CheckerboardIsSharp ==
  (/\ CallReturned /\ imgCall[1].pic.kind = "checker"
   /\ CallDetector.method = "edge"
   /\ imgCall[1].config.edgeWidthThreshold = Undefined)
    => CallResult.isBlurry = FALSE

EdgeRuns == {k \in 1..Len(bufferLog) : bufferLog[k].analysis = "edge"}

\* C11: the edge estimator is idempotent: every run of it on the buffer a
\* caller keeps, whatever other analyses ran in between, measures the same
\* EdgeMetrics, and the buffer holds the pixels the caller put in it.
C11_EdgeEstimatorIdempotent ==
  buffer # Undefined =>
    /\ \A j \in EdgeRuns, k \in EdgeRuns : bufferLog[j].metrics = bufferLog[k].metrics
    /\ buffer[1].imageData = ImageDataOf(buffer[1].pic)

\* two runs of the edge estimator, with another analysis between them, on a
\* coloured buffer and on one where edges are found
C11_Witness ==
  /\ buffer # Undefined
  /\ Len(bufferLog) = 3
  /\ bufferLog[1].analysis = "edge" /\ bufferLog[2].analysis = "laplacian"
  /\ bufferLog[3].analysis = "edge"
  /\ bufferLog[3].metrics[1].numEdges > 0

\* a call of the method on its own that has run
Applied(method) ==
  /\ unitCall # Undefined
  /\ unitCall[1].method = method
  /\ unitCall[1].result # Undefined

\* C12: for a page whose text content has zero items, analyzeTextSharpness
\* returns textSharpnessScore 0 and isTextBlurry = true and does not render
\* the page, whatever the drawing context and the render would do.
C12_NoTextItemsScoreZero ==
  (/\ Applied("analyzeTextSharpness")
   /\ unitCall[1].sharp.fail # "fetch"
   /\ unitCall[1].textContent.items = 0)
    => LET out == unitCall[1].result[1]
       IN  /\ out.ok
           /\ ~out.rendered
           /\ out.result.textSharpnessScore = Zero
           /\ out.result.isTextBlurry = TRUE

\* the estimator has run on a page without text items whose render would fail
C12_Witness ==
  /\ Applied("analyzeTextSharpness")
  /\ unitCall[1].textContent.items = 0
  /\ unitCall[1].sharp.fail = "render"
  /\ unitCall[1].result[1].ok

\* the one page of a one-page document, which the classifier marks as a
\* likely header page, has been analysed and has a result
HeaderPageResult ==
  /\ numPages = 1
  /\ Len(pageTexts) = 1
  /\ Len(pageResults) = 1
  /\ analyzePageContent(pageTexts[1], 1).isLikelyHeaderPage

\* the text-sharpness score of that page: the one in its result, and 0 for a
\* page with zero text items
HeaderPageScore ==
  IF pageTexts[1].items = 0 THEN Some(Zero)
  ELSE IF pageResults[1].metrics.textSharpness = Undefined THEN Undefined
  ELSE Some(pageResults[1].metrics.textSharpness[1].textSharpnessScore)

\* C13 (as stated): the final isBlurry of a page marked as a likely header
\* page is (text-sharpness score < 0.5), a first page with zero text items
\* included, with score 0.
C13_HeaderPageByTextSharpness ==
  (HeaderPageResult /\ HeaderPageScore # Undefined)
    => (pageResults[1].isBlurry <=> QLt(HeaderPageScore[1], Q(1, 2)))

\* C13 (amended): the final isBlurry of a page marked as a likely header
\* page that has text items and whose text analysis succeeded is
\* (text-sharpness score < 0.5), whatever the multi-scale verdict; a page
\* with zero text items keeps the multi-scale verdict.
C13_HeaderPageWithText ==
  HeaderPageResult =>
    /\ (pageTexts[1].items > 0 /\ HeaderPageScore # Undefined)
         => (pageResults[1].isBlurry <=> QLt(HeaderPageScore[1], Q(1, 2)))
    /\ pageTexts[1].items = 0
         => (pageResults[1].isBlurry <=> ScaleVerdicts(pageResults[1]) # {})

\* a header page with text whose scales report blur and whose text is sharp
\* enough for the lenient threshold alone: it is found clear
C13_Witness ==
  /\ HeaderPageResult
  /\ pageTexts[1].items > 0
  /\ HeaderPageScore # Undefined
  /\ ScaleVerdicts(pageResults[1]) # {}
  /\ pageResults[1].metrics.textSharpness[1].isTextBlurry
  /\ ~pageResults[1].isBlurry

\* caller c asked for the vision library while load k of it was in progress,
\* and both the load and the caller's promise have come to their end
WaitedFor(c, k) ==
  /\ callers[c].loader = "opencv"
  /\ callers[c].via = "wait"
  /\ callers[c].joined = k
  /\ callers[c].status \in {"resolved", "rejected"}
  /\ loads[k].state \in {"ready", "failed"}

\* C14: a caller that asks for the vision library while a load of it is in
\* progress gets that load's outcome: its promise resolves if and only if
\* the load in progress succeeds (and so rejects if and only if it fails).
C14_WaiterSharesOutcome ==
  \A c \in DOMAIN callers : \A k \in 1..Len(loads) :
    WaitedFor(c, k) => (callers[c].status = "resolved" <=> loads[k].state = "ready")

\* a waiter whose promise and whose load both ended
C14_Reached == \E c \in DOMAIN callers : \E k \in 1..Len(loads) : WaitedFor(c, k)

LoadsInFlight(lib) == {k \in 1..Len(loads) : LibOf(loads[k].loader) = lib /\ InFlight(k)}

\* C15: the loaders are process-wide: at any time at most one load of a
\* library is in flight, and no caller that arrives while a load is in
\* progress starts a second load or removes the script of the load in
\* flight, whichever BlurDetector or PDFAnalyzer instances the callers use.
C15_OneLoadPerLibrary ==
  /\ \A lib \in {"opencv", "pdfjs"} : Cardinality(LoadsInFlight(lib)) <= 1
  /\ \A k \in 1..Len(loads) : ~loads[k].removed

\* C16: at most one render is in flight against a canvas at any time: when
\* two analyses overlap and use the canvas the caller gave, no analysis
\* resizes or draws on it between another analysis's resize and its
\* read-back of the pixels.
C16_OneRenderPerCanvas ==
  /\ \A c \in DOMAIN surface : Cardinality(surface[c].rendering) <= 1
  /\ \A a \in DOMAIN analyses : ~analyses[a].intruded

\* the total length of the text the pages yielded
TotalTextLength == SumOver({<<k, pageTexts[k].joined>> : k \in 1..Len(pageTexts)}, 0)

SomePageWithoutText == \E k \in 1..Len(pageTexts) : pageTexts[k].items = 0

\* C17: analyzePDF returns isScanned = true exactly when at least one page
\* yielded zero text items or the total length of the extracted text of all
\* pages is below 10, and textLength is that total length.
C17_ScannedIffNoTextOrShort ==
  Returned =>
    /\ Len(pageTexts) = numPages
    /\ pdfOutcome[1].result.textLength = TotalTextLength
    /\ pdfOutcome[1].result.isScanned <=> (SomePageWithoutText \/ TotalTextLength < 10)

\* a document whose only page has exactly ten characters of text: not scanned
C17_Witness ==
  /\ Returned
  /\ ~SomePageWithoutText
  /\ TotalTextLength = 10
  /\ pdfOutcome[1].result.isScanned = FALSE

CallRejectedWith(error) ==
  Called /\ imgOutcome[1].status = "rejected" /\ imgOutcome[1].error = error

\* the kinds of input that getImageData draws on the detector's canvas
NeedsSurface(input) == input.kind \in {"File", "HTMLImageElement"}

\* C18: analyzeImage rejects with 'Unsupported input type' for an input
\* that is none of raw pixel buffer, image element, canvas or file, with
\* 'Could not get 2D context from canvas' when the input needs the drawing
\* surface and no drawing context can be obtained, and a raw pixel buffer
\* never needs the drawing surface.
C18_RejectsWithItsCause ==
  Called =>
    /\ imgCall[1].input.kind = "other" => CallRejectedWith("Unsupported input type")
    /\ (NeedsSurface(imgCall[1].input) /\ ~imgCall[1].canvasCtx)
         => CallRejectedWith("Could not get 2D context from canvas")
    /\ imgCall[1].input.kind = "ImageData"
         => ~CallRejectedWith("Could not get 2D context from canvas")

\* C19: with method 'edge', a call of analyzeImage that returns gives a
\* result whose method is 'edge' and whose metrics hold the edge analysis
\* and no variance, and the vision library is neither loaded nor asked: the
\* loader is as it was before the call.
C19_EdgeLeavesLoaderAlone ==
  (Called /\ CallDetector.method = "edge") =>
    /\ loaded = imgCall[1].wasLoaded
    /\ imgCall[1].env = NoEnv
    /\ CallReturned =>
         /\ CallResult.method = "edge"
         /\ CallResult.metrics.edgeAnalysis = Some(edgeAnalysisOf(imgCall[1].pic))
         /\ CallResult.metrics.laplacianVariance = Undefined

\* an 'edge' call that returned while the library was not loaded, on a
\* picture with edges
C19_Witness ==
  /\ CallReturned
  /\ CallDetector.method = "edge"
  /\ ~imgCall[1].wasLoaded /\ ~loaded
  /\ CallResult.metrics.edgeAnalysis[1].numEdges > 0

\* C20: when the caller gives no value for an option, the analysis runs
\* with the documented default, method 'edge' and edgeWidthThreshold 0.5,
\* at every entry point: BlurryCheck and a BlurDetector built directly.
C20_DocumentedDefaults ==
  Called =>
    /\ imgCall[1].config.method = Undefined => CallDetector.method = "edge"
    /\ imgCall[1].config.edgeWidthThreshold = Undefined
         => CallDetector.edgeWidthThreshold = Q(1, 2)

\* what the edge method returns for the buffer and thresholds of the call made
EdgeMethodResult ==
  analyzeImage([CallDetector EXCEPT !.method = "edge"], imgCall[1].pic, CallCv, TRUE).result

\* C21: when the variance method falls back to the edge estimator after a
\* failure of the vision library, the result has the isBlurry and the
\* confidence that the edge method returns for the same buffer and
\* thresholds, the low-edge-count heuristic included.
C21_FallbackEqualsEdgeMethod ==
  (CallReturned /\ CallResult.method = "edge (fallback)")
    => /\ CallResult.isBlurry = EdgeMethodResult.isBlurry
       /\ QEq(CallResult.confidence, EdgeMethodResult.confidence)

\* the scan of one row as the claim words it: a drop from a value of 20 or
\* more closes the open edge and counts it, a drop from a value under 20
\* does nothing, a pixel equal to 0 starts an edge
RECURSIVE ScanAsWorded(_, _, _, _)
ScanAsWorded(row, x, width, st) ==
  IF x >= width THEN st
  ELSE LET closes == /\ st.edgeStart >= 0 /\ x > st.edgeStart
                     /\ row[x] < row[x - 1] /\ row[x - 1] >= 20
           counted == [edgeStart |-> IF closes THEN -1 ELSE st.edgeStart,
                       numEdges |-> st.numEdges + (IF closes THEN 1 ELSE 0),
                       sumEdgeWidths |-> st.sumEdgeWidths
                                           + (IF closes THEN x - st.edgeStart - 1 ELSE 0)]
       IN  ScanAsWorded(row, x + 1, width,
                        IF row[x] = 0 THEN [counted EXCEPT !.edgeStart = x] ELSE counted)

RECURSIVE RowsAsWorded(_, _, _)
RowsAsWorded(pixels, y, st) ==
  IF y \notin DOMAIN pixels THEN st
  ELSE RowsAsWorded(pixels, y + 1,
                    ScanAsWorded(pixels[y], 0, Cardinality(DOMAIN pixels[y]),
                                 [st EXCEPT !.edgeStart = -1]))

\* C22: in the scan of a row, an edge that started at a pixel equal to 0
\* closes at the first later pixel that is below its predecessor while the
\* predecessor is at least 20, counting one edge of width
\* closeIndex - startIndex - 1; a drop from a predecessor under 20 neither
\* counts an edge nor ends the open edge; numEdges and the total width are
\* the sums over all rows.
C22_ScanClosesOnCountedDropOnly ==
  Applied("detectBlur") =>
    LET worded == RowsAsWorded(unitCall[1].pixels, 0,
                               [edgeStart |-> -1, numEdges |-> 0, sumEdgeWidths |-> 0])
        got == unitCall[1].result[1]
    IN  /\ got.numEdges = worded.numEdges
        /\ got.numEdges > 0 => got.avgEdgeWidth = Q(worded.sumEdgeWidths, worded.numEdges)

C24_HeaderPageClassifier ==
  Applied("analyzePageContent") =>
    LET t == unitCall[1].textContent
        got == unitCall[1].result[1]
        allThree == t.hasHeaderKeywords /\ t.hasDatePattern /\ t.hasAmountPattern
    IN  /\ got.isLikelyHeaderPage <=>
             (/\ unitCall[1].pageNumber = 1
              /\ (t.trimmed < 200 \/ (allThree /\ t.trimmed < 500)))
        /\ unitCall[1].pageNumber # 1 => got.isLikelyHeaderPage = FALSE
        /\ got.hasLowTextContent <=> t.trimmed < 200
        /\ QEq(got.textDensity, Q(t.trimmed, IF t.items >= 1 THEN t.items ELSE 1))

\* a first page of 201 characters, 199 after trim(), with none of the
\* patterns, marked as a header page for its low text content
C24_Witness ==
  /\ Applied("analyzePageContent")
  /\ unitCall[1].pageNumber = 1
  /\ unitCall[1].textContent.joined = 201 /\ unitCall[1].textContent.trimmed = 199
  /\ ~unitCall[1].textContent.hasHeaderKeywords
  /\ unitCall[1].result[1].isLikelyHeaderPage
  /\ unitCall[1].result[1].hasLowTextContent

\* C25: every caller blocked in waitForLoad on a load in progress is
\* released: its promise settles (resolves or rejects), also when the load
\* in progress never completes.
C25_WaiterIsReleased ==
  \A c \in Callers :
    (callers[c].status = "waiting") ~> (callers[c].status \in {"resolved", "rejected"})

\* a waiter rejected by its own timer while the load it waited for is still
\* in flight
C25_Witness ==
  \E c \in Callers :
    /\ callers[c].via = "wait" /\ callers[c].status = "rejected"
    /\ callers[c].error \in {"OpenCV loading timeout", "PDF.js loading timeout"}
    /\ InFlight(callers[c].joined)
    /\ loads[callers[c].joined].state = "fetching"

\* the analysis of document page 1 failed and its result was left out
PageOneOmitted == numPages >= 1 /\ pageLog[1] = "quality failed"

\* C26: the lenient first page of the document policy is always document
\* page 1: when the analysis of page 1 failed and its result is omitted,
\* every page result counts as a body page, so the document is judged not
\* good exactly when the blurry results are at least half (rounded up) of
\* all the results.
C26_LenientPageIsPageOne ==
  (Returned /\ PageOneOmitted /\ Len(pageResults) >= 1)
    => (ReturnedGood = FALSE
          <=> Cardinality(Blurry(pageResults)) >= CeilHalf(Len(pageResults)))

\* the page results of the document that differs from the one analysed only
\* in the isBlurry of its first page result
FirstVerdictFlipped == [pageResults EXCEPT ![1].isBlurry = ~pageResults[1].isBlurry]

\* C27: for a document with two or more page results, isQualityGood does
\* not depend on the isBlurry of the first page result: the document whose
\* page results differ only in it gets the same isQualityGood.
C27_FirstVerdictDoesNotMatter ==
  (Returned /\ Len(pageResults) >= 2)
    => QualityGood(FirstVerdictFlipped) = ReturnedGood

\* four page results, the first clear and one of the later ones blurry,
\* judged good as the same document with a blurry first page is
C27_Witness ==
  /\ Returned /\ Len(pageResults) = 4
  /\ ~pageResults[1].isBlurry /\ Cardinality(LaterBlurry) = 1
  /\ ReturnedGood = TRUE
  /\ QualityGood(FirstVerdictFlipped) = TRUE

\* C28: when no page produces a result (the document has no page, or the
\* analysis of every page failed and the page was skipped), analyzePDF
\* returns isQualityGood = true and no pageResults, and pagesAnalyzed is the
\* number of pages of the document.
C28_NoResultIsGood ==
  (Returned /\ pageResults = << >>)
    => /\ pdfOutcome[1].status = "returned"
       /\ pdfOutcome[1].result.isQualityGood = TRUE
       /\ pdfOutcome[1].result.pageResults = Undefined
       /\ pdfOutcome[1].result.pagesAnalyzed = numPages

\* a document of two pages or more, every page skipped, returned as good
C28_Witness ==
  /\ Returned /\ numPages >= 2 /\ pageResults = << >>
  /\ \A k \in 1..numPages : pageLog[k] = "quality failed"
  /\ pdfOutcome[1].result.isQualityGood = TRUE
  /\ pdfOutcome[1].result.pagesAnalyzed = numPages

\* the verdict of a page result without the header adjustment: the
\* multi-scale verdict or isTextBlurry
UnadjustedVerdict(entry) ==
  ScaleVerdicts(entry) # {} \/ entry.metrics.textSharpness[1].isTextBlurry

\* C29: the header-page adjustment is only ever lenient: for every page
\* with text, if the header-adjusted verdict (text-sharpness score < 0.5)
\* is blurry, the unadjusted verdict (edge verdict or isTextBlurry, which is
\* score < 0.8) is blurry too; a page judged blurry under the adjustment
\* would be blurry without it.
C29_HeaderAdjustmentOnlyLenient ==
  \A k \in 1..Len(pageResults) :
    pageResults[k].method.textAnalysis =>
      LET ts == pageResults[k].metrics.textSharpness[1]
      IN  /\ ts.isTextBlurry <=> QLt(ts.textSharpnessScore, Q(4, 5))
          /\ QLt(ts.textSharpnessScore, Q(1, 2)) => UnadjustedVerdict(pageResults[k])
          /\ (pageResults[k].method.headerAdjusted /\ pageResults[k].isBlurry)
               => UnadjustedVerdict(pageResults[k])

\* a header page found blurry under the adjustment, on its text alone: the
\* three scales report no blur
C29_Witness ==
  \E k \in 1..Len(pageResults) :
    /\ pageResults[k].method.textAnalysis /\ pageResults[k].method.headerAdjusted
    /\ pageResults[k].isBlurry
    /\ ScaleVerdicts(pageResults[k]) = {}
    /\ QLt(pageResults[k].metrics.textSharpness[1].textSharpnessScore, Q(1, 2))

\* C30: a load attempt never leaves a loader stuck in loading: after every
\* attempt (success, script error, initialization timeout, or a script that
\* reports neither load nor error) the loading flag eventually becomes
\* false; and once the vision loader is loaded its loaded flag never
\* becomes false again.
C30_NeverStuckLoading ==
  /\ \A l \in Loaders : loading[l] ~> ~loading[l]
  /\ [][loaded => loaded']_vars
====
